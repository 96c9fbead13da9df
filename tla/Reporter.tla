------------------------------ MODULE Reporter -------------------------------
(***************************************************************************)
(* lars_reporters: reactor threads receive ReportStatusRequests, store     *)
(* each at once and pass it on to one of thread_cnt store threads, which   *)
(* stores it again (reporter_service.cpp, store_thread.cpp,                *)
(* store_report.cpp).  A request is about the hosts of one mod and names   *)
(* their rows of ServerCallStatus in any order; every agent sends caller   *)
(* 127, so any reactor thread may receive requests for any rows.  The      *)
(* queues are the mailboxes ThreadQueue is shown to implement.             *)
(***************************************************************************)
EXTENDS Integers, Sequences, SequencesExt

CONSTANTS
  Reactors,           \* the reactor threads
  thread_cnt,         \* store threads
  Keys,               \* <<modid, cmdid, ip, port, caller>>: rows of the table
  Requests,           \* the rows a request may name, see load_balance::commit
  MaxReports,         \* bound: requests, numbered in the order they arrive
  MaxErrors           \* bound: queries that fail

ASSUME ReporterAssumption ==
  /\ thread_cnt \in Nat \ {0} /\ {MaxReports, MaxErrors} \subseteq Nat
  /\ Requests \subseteq Seq(Keys)

Queues == 0..thread_cnt-1
Reports == 1..MaxReports
Items == [id : Reports, rows : Requests]

VARIABLES
  table,              \* ServerCallStatus: the report each row is from, or 0
  index,              \* the static index of get_report_status
  reportQueues,
  ended               \* "exit", or "overrun": reportQueues indexed past its end

(* The threads. *)
VARIABLES
  handler,            \* get_report_status: where each reactor thread is
  work,               \* the requests each store thread has taken
  store_row           \* and the row it stores next

(* History. *)
VARIABLES
  received,           \* requests received
  done,               \* how often each request has been stored
  last,               \* the last request naming a row that each queue was sent
  errors

tables == <<table, errors>>
threads == <<handler, work, store_row>>
history == <<received, done, last>>
vars == <<tables, index, reportQueues, ended, threads, history>>

none == [id |-> 0, rows |-> << >>]

(* i is the next row to store, local a copy of index in a register. *)
idle == [pc |-> "idle", req |-> none, i |-> 1, local |-> 0]

Init ==
  /\ table = [x \in Keys |-> 0] /\ errors = 0
  /\ index = 0 /\ ended = "no"
  /\ reportQueues = [q \in Queues |-> << >>]
  /\ handler = [r \in Reactors |-> idle]
  /\ work = [q \in Queues |-> << >>] /\ store_row = [q \in Queues |-> 1]
  /\ received = 0 /\ done = [k \in Reports |-> 0]
  /\ last = [q \in Queues |-> [x \in Keys |-> 0]]
-----------------------------------------------------------------------------
(* The loop of StoreReport::store, query by query; an error is only logged. *)
Upsert(req, i) ==
  /\ i <= Len(req.rows)
  /\ \/ table' = [table EXCEPT ![req.rows[i]] = req.id] /\ UNCHANGED errors
     \/ errors < MaxErrors /\ errors' = errors + 1 /\ UNCHANGED table

Stored(req, i) ==
  /\ i > Len(req.rows)
  /\ done' = [done EXCEPT ![req.id] = @ + 1]

At(r, pc) == ended = "no" /\ handler[r].pc = pc
Goto(r, pc) == handler' = [handler EXCEPT ![r] = [idle EXCEPT !.pc = pc]]

get_report_status(r) ==
  /\ At(r, "idle") /\ received < MaxReports
  /\ received' = received + 1
  /\ \E rows \in Requests :
       handler' = [handler EXCEPT ![r].pc = "store",
                                  ![r].req = [id |-> received + 1, rows |-> rows]]
  /\ UNCHANGED <<tables, index, reportQueues, ended, work, store_row, done, last>>

(* StoreReport sr cannot connect to the database: exit(1).  A store thread *)
(* connects when it starts and ends the process in the same way.           *)
connect_failed(r) ==
  /\ At(r, "idle") /\ received < MaxReports
  /\ ended' = "exit"
  /\ UNCHANGED <<tables, index, reportQueues, threads, history>>

store(r) ==
  /\ At(r, "store") /\ Upsert(handler[r].req, handler[r].i)
  /\ handler' = [handler EXCEPT ![r].i = @ + 1]
  /\ UNCHANGED <<index, reportQueues, ended, work, store_row, history>>

Named(req) == {req.rows[j] : j \in DOMAIN req.rows}

(* reportQueues[index]->send(req), once all of req is stored.              *)
send(r) ==
  LET req == handler[r].req IN
  /\ At(r, "store") /\ Stored(req, handler[r].i) /\ Goto(r, "increment")
  /\ IF index \in Queues
     THEN /\ reportQueues' = [reportQueues EXCEPT ![index] = Append(@, req)]
          /\ last' = [last EXCEPT ![index] =
                        [x \in Keys |-> IF x \in Named(req) THEN req.id ELSE @[x]]]
          /\ UNCHANGED ended
     ELSE ended' = "overrun" /\ UNCHANGED <<reportQueues, last>>
  /\ UNCHANGED <<tables, index, work, store_row, received>>

(* index ++; index = index % thread_cnt: unsynchronised accesses to one    *)
(* int.  A compiler may keep the sum in a register (write_remainder at     *)
(* "incremented") or write it and read it again.                           *)
read_index(r) ==
  /\ \/ /\ At(r, "increment")
        /\ handler' = [handler EXCEPT ![r].pc = "incremented", ![r].local = index + 1]
     \/ /\ At(r, "reload")
        /\ handler' = [handler EXCEPT ![r].pc = "reloaded", ![r].local = index]
  /\ UNCHANGED <<tables, index, reportQueues, ended, work, store_row, history>>

write_sum(r) ==
  /\ At(r, "incremented") /\ Goto(r, "reload")
  /\ index' = handler[r].local
  /\ UNCHANGED <<tables, reportQueues, ended, work, store_row, history>>

NoRemainder(n) == n                           \* Mutant: the second statement is missing
Remainder(n) == n % thread_cnt

write_remainder(r) ==
  /\ At(r, "incremented") \/ At(r, "reloaded")
  /\ index' = Remainder(handler[r].local)
  /\ handler' = [handler EXCEPT ![r] = idle]
  /\ UNCHANGED <<tables, reportQueues, ended, work, store_row, history>>
-----------------------------------------------------------------------------
TakenReversed(q) == Reverse(reportQueues[q])  \* Mutant: the newest first
TakenFirst(q) == << Head(reportQueues[q]) >>  \* Mutant: one request of the batch
Taken(q) == reportQueues[q]

LeftTail(q) == Tail(reportQueues[q])          \* Mutant: the batch is not swapped out
Left(q) == << >>

(* thread_report takes the whole queue and stores request after request.   *)
recv(q) ==
  /\ ended = "no" /\ work[q] = << >> /\ reportQueues[q] # << >>
  /\ work' = [work EXCEPT ![q] = Taken(q)]
  /\ reportQueues' = [reportQueues EXCEPT ![q] = Left(q)]
  /\ UNCHANGED <<tables, index, ended, handler, store_row, history>>

thread_report(q) ==
  /\ ended = "no" /\ work[q] # << >>
  /\ \/ /\ Upsert(Head(work[q]), store_row[q])
        /\ store_row' = [store_row EXCEPT ![q] = @ + 1]
        /\ UNCHANGED <<work, done>>
     \/ /\ Stored(Head(work[q]), store_row[q])
        /\ store_row' = [store_row EXCEPT ![q] = 1]
        /\ work' = [work EXCEPT ![q] = Tail(@)]
        /\ UNCHANGED tables
  /\ UNCHANGED <<index, reportQueues, ended, handler, received, last>>

Reactor(r) == get_report_status(r) \/ connect_failed(r) \/ store(r) \/ send(r)
              \/ read_index(r) \/ write_sum(r) \/ write_remainder(r)
StoreThread(q) == recv(q) \/ thread_report(q)

Next == (\E r \in Reactors : Reactor(r)) \/ (\E q \in Queues : StoreThread(q))

Spec == Init /\ [][Next]_vars

(* All threads run on; no report has to come. *)
FairSpec ==
  /\ Spec
  /\ \A r \in Reactors : WF_vars(handler[r].pc # "idle" /\ Reactor(r))
  /\ \A q \in Queues : WF_vars(StoreThread(q))
-----------------------------------------------------------------------------
(* The type invariant; no request is stored more than twice.               *)
TypeOK ==
  /\ table \in [Keys -> 0..MaxReports] /\ errors \in 0..MaxErrors
  /\ index \in Nat /\ ended \in {"no", "exit", "overrun"}
  /\ reportQueues \in [Queues -> Seq(Items)]
  /\ work \in [Queues -> Seq(Items)]
  /\ store_row \in [Queues -> Nat \ {0}]
  /\ handler \in [Reactors ->
       [pc : {"idle", "store", "increment", "incremented", "reload", "reloaded"},
        req : Items \cup {none}, i : Nat \ {0}, local : Nat]]
  /\ received \in 0..MaxReports /\ done \in [Reports -> 0..2]
  /\ last \in [Queues -> [Keys -> 0..MaxReports]]

(* index is past the end only while another thread is between the two      *)
(* statements that advance it, whatever they overwrite of each other: one  *)
(* reactor thread alone never indexes past the end.                        *)
OverrunNeedsRace ==
  index \notin Queues => \E r \in Reactors : handler[r].pc \in {"reload", "reloaded"}

(* Nothing received is waiting or being stored.                            *)
Quiet == /\ \A q \in Queues : reportQueues[q] = << >> /\ work[q] = << >>
         /\ \A r \in Reactors : handler[r].pc = "idle"

(* Store threads overtake each other and the handlers of get_report_status *)
(* overtake them, so a row may end up from a report that is arbitrarily    *)
(* old.  Within a queue nothing is overtaken, and what a handler stores is *)
(* stored again: once all is stored, a row some report named is from the   *)
(* last report naming it that one of the queues was sent.                  *)
LastOfAQueueIsStored ==
  Quiet /\ ended = "no" /\ errors = 0 =>
    \A x \in Keys : \E q \in Queues :
      /\ table[x] = last[q][x]
      /\ table[x] = 0 => \A p \in Queues : last[p][x] = 0

(* Every request received is stored twice, by its handler and by a store   *)
(* thread, unless the process ends: once no more come, all have been.      *)
EveryReportStored ==
  <>[](ended # "no" \/ \A k \in 1..received : done[k] = 2)
=============================================================================
