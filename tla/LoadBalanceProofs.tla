-------------------------- MODULE LoadBalanceProofs --------------------------
(***************************************************************************)
(* Proofs about LoadBalance, for any hosts, addresses and configuration.   *)
(* First the facts about one host_info object, then the heap and the map,  *)
(* then the two lists: what Without, Rotate and Append do to a list        *)
(* without duplicates, and from that the partition of the live hosts.      *)
(***************************************************************************)
EXTENDS LoadBalance, TLAPS, SequenceTheorems, FiniteSetTheorems,
        WellFoundedInduction

(* One object: the bodies of CountersShareTheWindow and NoLateJudgement.   *)
Window(hi) ==
  /\ hi.vsucc - hi.rsucc = (IF hi.overload THEN 0 ELSE init_succ_cnt)
  /\ hi.verr - hi.rerr = (IF hi.overload THEN init_err_cnt ELSE 0)
  /\ hi.contin_succ <= hi.rsucc /\ hi.contin_err <= hi.rerr

Timely(hi) == IF hi.overload THEN ~JudgedIdle(hi) ELSE ~JudgedOverload(hi)

Good(hi) == hi \in host_info /\ Window(hi) /\ Timely(hi)

(* What report() may leave in the object without a flip. *)
Unjudged(hi, retcode) ==
  /\ ~(~hi.overload /\ retcode # "RET_SUCC" /\ JudgedOverload(hi))
  /\ ~(hi.overload /\ retcode = "RET_SUCC" /\ JudgedIdle(hi))

Aged(hi) == [hi EXCEPT !.idle_age = Older(@, idle_timeout),
                       !.overload_age = Older(@, overload_timeout)]

(* A rate that is not exceeded is not exceeded by one more on the other    *)
(* side of the sum.                                                        *)
LEMMA RateMonotonic ==
  ASSUME NEW x \in Nat, NEW y \in Nat, NEW n \in Nat, NEW d \in Nat,
         ~(x * d > n * (y + x))
  PROVE  ~(x * d > n * ((y + 1) + x))
<1>1. (y + 1) + x = (y + x) + 1
  OBVIOUS
<1>2. n * ((y + x) + 1) = n * (y + x) + n
  <2> DEFINE z == y + x
  <2>1. z \in Nat
    OBVIOUS
  <2> HIDE DEF z
  <2>2. n * (z + 1) = n * z + n
    BY <2>1
  <2> QED
    BY <2>2 DEF z
<1>3. n * (y + x) \in Nat /\ x * d \in Nat
  OBVIOUS
<1> QED
  BY <1>1, <1>2, <1>3

(* A counter that is 0 exceeds no rate. *)
LEMMA ZeroRate ==
  ASSUME NEW y \in Nat, NEW n \in Nat, NEW d \in Nat
  PROVE  ~(0 * d > n * y)
<1>1. 0 * d = 0 /\ n * y \in Nat
  OBVIOUS
<1> QED
  BY <1>1

(* One field at a time: the provers do not see through eight EXCEPTs. *)
LEMMA FieldWritten ==
  ASSUME NEW hi \in host_info, NEW n \in Nat
  PROVE  /\ [hi EXCEPT !.vsucc = n] \in host_info
         /\ [hi EXCEPT !.verr = n] \in host_info
         /\ [hi EXCEPT !.rsucc = n] \in host_info
         /\ [hi EXCEPT !.rerr = n] \in host_info
         /\ [hi EXCEPT !.contin_succ = n] \in host_info
         /\ [hi EXCEPT !.contin_err = n] \in host_info
<1>1. [hi EXCEPT !.vsucc = n] \in host_info
  BY DEF host_info
<1>2. [hi EXCEPT !.verr = n] \in host_info
  BY DEF host_info
<1>3. [hi EXCEPT !.rsucc = n] \in host_info
  BY DEF host_info
<1>4. [hi EXCEPT !.rerr = n] \in host_info
  BY DEF host_info
<1>5. [hi EXCEPT !.contin_succ = n] \in host_info
  BY DEF host_info
<1>6. [hi EXCEPT !.contin_err = n] \in host_info
  BY DEF host_info
<1> QED
  BY <1>1, <1>2, <1>3, <1>4, <1>5, <1>6

(* The same for the flag and the two timestamps. *)
LEMMA StateWritten ==
  ASSUME NEW hi \in host_info, NEW b \in BOOLEAN,
         NEW i \in 0..idle_timeout, NEW o \in (0..overload_timeout) \cup {Unset}
  PROVE  /\ [hi EXCEPT !.overload = b] \in host_info
         /\ [hi EXCEPT !.idle_age = i] \in host_info
         /\ [hi EXCEPT !.overload_age = o] \in host_info
<1>1. [hi EXCEPT !.overload = b] \in host_info
  BY DEF host_info
<1>2. [hi EXCEPT !.idle_age = i] \in host_info
  BY DEF host_info
<1>3. [hi EXCEPT !.overload_age = o] \in host_info
  BY DEF host_info
<1> QED
  BY <1>1, <1>2, <1>3

(* The six counters as a flip or a window reset leaves them. *)
LEMMA CountersWritten ==
  ASSUME NEW hi \in host_info, NEW n \in Nat, NEW m \in Nat
  PROVE  [hi EXCEPT !.vsucc = n, !.verr = m, !.rsucc = 0, !.rerr = 0,
                    !.contin_succ = 0, !.contin_err = 0] \in host_info
<1> DEFINE h1 == [hi EXCEPT !.vsucc = n]
           h2 == [h1 EXCEPT !.verr = m]
           h3 == [h2 EXCEPT !.rsucc = 0]
           h4 == [h3 EXCEPT !.rerr = 0]
           h5 == [h4 EXCEPT !.contin_succ = 0]
           h6 == [h5 EXCEPT !.contin_err = 0]
<1> HIDE DEF h1, h2, h3, h4, h5, h6
<1>1. h1 \in host_info
  BY FieldWritten DEF h1
<1>2. h2 \in host_info
  BY <1>1, FieldWritten DEF h2
<1>3. h3 \in host_info
  BY <1>2, FieldWritten DEF h3
<1>4. h4 \in host_info
  BY <1>3, FieldWritten DEF h4
<1>5. h5 \in host_info
  BY <1>4, FieldWritten DEF h5
<1>6. h6 \in host_info
  BY <1>5, FieldWritten DEF h6
<1> QED
  BY <1>6 DEF h1, h2, h3, h4, h5, h6

(* host_info::host_info: a new host is idle, within its thresholds and in  *)
(* a fresh window.                                                         *)
LEMMA NewGood ==
  ASSUME NEW h \in Hosts
  PROVE  /\ Good(new_host_info(h)) /\ new_host_info(h).host = h
         /\ ~new_host_info(h).overload
<1> DEFINE hi == new_host_info(h)
<1>1. hi \in host_info /\ hi.host = h /\ Window(hi)
  BY ConfigAssumption DEF new_host_info, host_info, Window
<1>2. ~hi.overload /\ hi.verr = 0 /\ hi.contin_err = 0 /\ hi.vsucc \in Nat
  BY ConfigAssumption DEF new_host_info
<1>3. ~ErrRateExceeded(hi)
  BY <1>2, ZeroRate, ConfigAssumption DEF ErrRateExceeded
<1> QED
  BY <1>1, <1>2, <1>3, ConfigAssumption DEF Good, Timely, JudgedOverload

(* host_info::set_overload starts a window in which the host cannot be     *)
(* judged idle yet.                                                        *)
LEMMA SetOverloadGood ==
  ASSUME NEW hi \in host_info
  PROVE  /\ Good(set_overload(hi)) /\ set_overload(hi).host = hi.host
         /\ set_overload(hi).overload
<1> DEFINE ho == set_overload(hi)
<1>a. ho \in host_info
  <2> DEFINE h1 == [hi EXCEPT !.vsucc = 0, !.verr = init_err_cnt, !.rsucc = 0, !.rerr = 0,
                              !.contin_succ = 0, !.contin_err = 0]
             h2 == [h1 EXCEPT !.overload = TRUE]
             h3 == [h2 EXCEPT !.overload_age = 0]
  <2> HIDE DEF h1, h2, h3
  <2>0. /\ init_succ_cnt \in Nat /\ init_err_cnt \in Nat
        /\ 0 \in 0..idle_timeout /\ 0 \in 0..overload_timeout
    BY ConfigAssumption
  <2>1. h1 \in host_info
    BY <2>0, CountersWritten DEF h1
  <2>2. h2 \in host_info
    BY <2>0, <2>1, StateWritten DEF h2
  <2>3. h3 \in host_info
    BY <2>0, <2>2, StateWritten DEF h3
  <2> QED
    BY <2>3 DEF set_overload, h1, h2, h3
<1>b. /\ ho.host = hi.host /\ ho.rsucc = 0 /\ ho.rerr = 0
      /\ ho.contin_succ = 0 /\ ho.contin_err = 0
      /\ ho.vsucc = 0 /\ ho.verr = init_err_cnt /\ ho.overload = TRUE
  BY DEF set_overload, host_info
<1>1. ho \in host_info /\ ho.host = hi.host /\ Window(ho)
  BY <1>a, <1>b, ConfigAssumption DEF Window
<1>2. ho.overload /\ ho.vsucc = 0 /\ ho.contin_succ = 0 /\ ho.verr \in Nat
  BY ConfigAssumption DEF set_overload, host_info
<1>3. ~SuccRateExceeded(ho)
  BY <1>2, ZeroRate, ConfigAssumption DEF SuccRateExceeded
<1> QED
  BY <1>1, <1>2, <1>3, ConfigAssumption DEF Good, Timely, JudgedIdle

(* host_info::set_idle starts a window in which the host cannot be judged  *)
(* overloaded yet.                                                         *)
LEMMA SetIdleGood ==
  ASSUME NEW hi \in host_info
  PROVE  /\ Good(set_idle(hi)) /\ set_idle(hi).host = hi.host
         /\ ~set_idle(hi).overload
<1> DEFINE ho == set_idle(hi)
<1>a. ho \in host_info
  <2> DEFINE h1 == [hi EXCEPT !.vsucc = init_succ_cnt, !.verr = 0, !.rsucc = 0, !.rerr = 0,
                              !.contin_succ = 0, !.contin_err = 0]
             h2 == [h1 EXCEPT !.overload = FALSE]
             h3 == [h2 EXCEPT !.idle_age = 0]
  <2> HIDE DEF h1, h2, h3
  <2>0. /\ init_succ_cnt \in Nat /\ init_err_cnt \in Nat
        /\ 0 \in 0..idle_timeout /\ 0 \in 0..overload_timeout
    BY ConfigAssumption
  <2>1. h1 \in host_info
    BY <2>0, CountersWritten DEF h1
  <2>2. h2 \in host_info
    BY <2>0, <2>1, StateWritten DEF h2
  <2>3. h3 \in host_info
    BY <2>0, <2>2, StateWritten DEF h3
  <2> QED
    BY <2>3 DEF set_idle, h1, h2, h3
<1>b. /\ ho.host = hi.host /\ ho.rsucc = 0 /\ ho.rerr = 0
      /\ ho.contin_succ = 0 /\ ho.contin_err = 0
      /\ ho.vsucc = init_succ_cnt /\ ho.verr = 0 /\ ho.overload = FALSE
  BY DEF set_idle, host_info
<1>1. ho \in host_info /\ ho.host = hi.host /\ Window(ho)
  BY <1>a, <1>b, ConfigAssumption DEF Window
<1>2. ~ho.overload /\ ho.verr = 0 /\ ho.contin_err = 0 /\ ho.vsucc \in Nat
  BY ConfigAssumption DEF set_idle, host_info
<1>3. ~ErrRateExceeded(ho)
  BY <1>2, ZeroRate, ConfigAssumption DEF ErrRateExceeded
<1> QED
  BY <1>1, <1>2, <1>3, ConfigAssumption DEF Good, Timely, JudgedOverload

(* report() without a flip: a success cannot push an idle host over the    *)
(* error threshold, a failure cannot push an overloaded one over the       *)
(* success threshold.                                                      *)
LEMMA CountedGood ==
  ASSUME NEW hi, Good(hi), NEW r \in Retcodes
  PROVE  /\ Counted(hi, r) \in host_info /\ Counted(hi, r).host = hi.host
         /\ Counted(hi, r).overload = hi.overload
         /\ Unjudged(Counted(hi, r), r) => Good(Counted(hi, r))
<1> DEFINE hc == Counted(hi, r)
<1>0. hi \in host_info /\ Window(hi) /\ Timely(hi)
  BY DEF Good
<1>1. /\ hc \in host_info /\ hc.host = hi.host /\ hc.overload = hi.overload
      /\ Window(hc)
  <2>1. CASE r = "RET_SUCC"
    <3>1. hc \in host_info
      <4> DEFINE h1 == [hi EXCEPT !.vsucc = hi.vsucc + 1]
                 h2 == [h1 EXCEPT !.rsucc = h1.rsucc + 1]
                 h3 == [h2 EXCEPT !.contin_succ = h2.contin_succ + 1]
      <4> HIDE DEF h1, h2, h3
      <4>1. h1 \in host_info
        BY <1>0, FieldWritten DEF h1, host_info
      <4>2. h2 \in host_info
        BY <4>1, FieldWritten DEF h2, host_info
      <4>3. h3 \in host_info
        BY <4>2, FieldWritten DEF h3, host_info
      <4>4. [h3 EXCEPT !.contin_err = 0] \in host_info
        BY <4>3, FieldWritten
      <4> QED
        BY <4>4, <2>1 DEF Counted, h1, h2, h3
    <3>2. /\ hc.host = hi.host /\ hc.overload = hi.overload
          /\ hc.vsucc = hi.vsucc + 1 /\ hc.rsucc = hi.rsucc + 1
          /\ hc.verr = hi.verr /\ hc.rerr = hi.rerr
          /\ hc.contin_succ = hi.contin_succ + 1 /\ hc.contin_err = 0
      BY <1>0, <2>1 DEF Counted, host_info
    <3> QED
      BY <1>0, <3>1, <3>2, ConfigAssumption DEF host_info, Window
  <2>2. CASE r # "RET_SUCC"
    <3>1. hc \in host_info
      <4> DEFINE h1 == [hi EXCEPT !.verr = hi.verr + 1]
                 h2 == [h1 EXCEPT !.rerr = h1.rerr + 1]
                 h3 == [h2 EXCEPT !.contin_err = h2.contin_err + 1]
      <4> HIDE DEF h1, h2, h3
      <4>1. h1 \in host_info
        BY <1>0, FieldWritten DEF h1, host_info
      <4>2. h2 \in host_info
        BY <4>1, FieldWritten DEF h2, host_info
      <4>3. h3 \in host_info
        BY <4>2, FieldWritten DEF h3, host_info
      <4>4. [h3 EXCEPT !.contin_succ = 0] \in host_info
        BY <4>3, FieldWritten
      <4> QED
        BY <4>4, <2>2 DEF Counted, h1, h2, h3
    <3>2. /\ hc.host = hi.host /\ hc.overload = hi.overload
          /\ hc.vsucc = hi.vsucc /\ hc.rsucc = hi.rsucc
          /\ hc.verr = hi.verr + 1 /\ hc.rerr = hi.rerr + 1
          /\ hc.contin_err = hi.contin_err + 1 /\ hc.contin_succ = 0
      BY <1>0, <2>2 DEF Counted, host_info
    <3> QED
      BY <1>0, <3>1, <3>2, ConfigAssumption DEF host_info, Window
  <2> QED
    BY <2>1, <2>2
<1>2. ASSUME Unjudged(hc, r) PROVE Timely(hc)
  <2>1. CASE r # "RET_SUCC" /\ ~hi.overload
    BY <1>1, <1>2, <2>1 DEF Unjudged, Timely
  <2>2. CASE r = "RET_SUCC" /\ hi.overload
    BY <1>1, <1>2, <2>2 DEF Unjudged, Timely
  <2>3. CASE r = "RET_SUCC" /\ ~hi.overload
    <3>1. /\ hc.vsucc = hi.vsucc + 1 /\ hc.verr = hi.verr /\ hc.contin_err = 0
          /\ hi.vsucc \in Nat /\ hi.verr \in Nat
      BY <2>3, <1>0 DEF Counted, host_info
    <3>2. ~ErrRateExceeded(hi)
      BY <1>0, <2>3 DEF Timely, JudgedOverload
    <3>3. ~ErrRateExceeded(hc)
      BY <3>1, <3>2, RateMonotonic, ConfigAssumption DEF ErrRateExceeded
    <3> QED
      BY <1>1, <2>3, <3>1, <3>3, ConfigAssumption DEF Timely, JudgedOverload
  <2>4. CASE r # "RET_SUCC" /\ hi.overload
    <3>1. /\ hc.vsucc = hi.vsucc /\ hc.verr = hi.verr + 1 /\ hc.contin_succ = 0
          /\ hi.vsucc \in Nat /\ hi.verr \in Nat
      BY <2>4, <1>0 DEF Counted, host_info
    <3>2. ~(hi.vsucc * SuccDen > SuccNum * (hi.verr + hi.vsucc))
      BY <1>0, <2>4, <3>1 DEF Timely, JudgedIdle, SuccRateExceeded
    <3>3. ~(hi.vsucc * SuccDen > SuccNum * ((hi.verr + 1) + hi.vsucc))
      BY <3>1, <3>2, RateMonotonic, ConfigAssumption
    <3>4. ~SuccRateExceeded(hc)
      BY <3>1, <3>3 DEF SuccRateExceeded
    <3> QED
      BY <1>1, <2>4, <3>1, <3>4, ConfigAssumption DEF Timely, JudgedIdle
  <2> QED
    BY <1>1, <2>1, <2>2, <2>3, <2>4 DEF host_info
<1> QED
  BY <1>1, <1>2 DEF Good

(* Time alone changes no counter. *)
LEMMA AgedGood ==
  ASSUME NEW hi, Good(hi)
  PROVE  Good(Aged(hi)) /\ Aged(hi).host = hi.host /\ Aged(hi).overload = hi.overload
<1>0. hi \in host_info
  BY DEF Good
<1>1. Older(hi.idle_age, idle_timeout) \in 0..idle_timeout
  BY <1>0, ConfigAssumption DEF host_info, Older
<1>2. Older(hi.overload_age, overload_timeout) \in (0..overload_timeout) \cup {Unset}
  BY <1>0, ConfigAssumption DEF host_info, Older
<1>3. Aged(hi) \in host_info
  BY <1>0, <1>1, <1>2 DEF Aged, host_info
<1>4. /\ Aged(hi).vsucc = hi.vsucc /\ Aged(hi).verr = hi.verr
      /\ Aged(hi).rsucc = hi.rsucc /\ Aged(hi).rerr = hi.rerr
      /\ Aged(hi).contin_succ = hi.contin_succ /\ Aged(hi).contin_err = hi.contin_err
      /\ Aged(hi).overload = hi.overload /\ Aged(hi).host = hi.host
  BY <1>0 DEF Aged, host_info
<1>5. Window(Aged(hi)) /\ Timely(Aged(hi))
  BY <1>4 DEF Good, Window, Timely, JudgedIdle, JudgedOverload, ErrRateExceeded,
              SuccRateExceeded
<1> QED
  BY <1>3, <1>4, <1>5 DEF Good
-----------------------------------------------------------------------------
(* The heap and the map. *)
HeapType == heap \in [Addrs -> host_info \cup {Freed}]

MapType == /\ DOMAIN host_map \subseteq Hosts
           /\ \A k \in DOMAIN host_map : host_map[k] \in Addrs

HeapGood == \A a \in Addrs : Live(a) => Good(heap[a])

LiveIsRouted == \A a \in Addrs : Live(a) => heap[a].host \in routed

HeapInv == HeapType /\ MapType /\ HeapGood /\ LiveIsMapped /\ LiveIsRouted

(* What the three ways out of report() do to one object and to the lists. *)
LEMMA JudgeStores ==
  ASSUME HeapInv, NEW a \in Addrs, Live(a), NEW r \in Retcodes, Judge(a, r)
  PROVE  \E hi :
           /\ Good(hi) /\ hi.host = heap[a].host
           /\ heap' = [heap EXCEPT ![a] = hi]
           /\ \/ /\ hi.overload = heap[a].overload
                 /\ UNCHANGED <<idle_list, overload_list>>
              \/ hi.overload /\ ~heap[a].overload /\ MoveToOverload(a)
              \/ ~hi.overload /\ heap[a].overload /\ MoveToIdle(a)
<1> DEFINE hc == Counted(heap[a], r)
           overload == ~hc.overload /\ r # "RET_SUCC" /\ JudgedOverload(hc)
           idle == hc.overload /\ r = "RET_SUCC" /\ JudgedIdle(hc)
<1>1. Good(heap[a])
  BY DEF HeapInv, HeapGood
<1>2. /\ hc \in host_info /\ hc.host = heap[a].host /\ hc.overload = heap[a].overload
      /\ Unjudged(hc, r) => Good(hc)
  BY <1>1, CountedGood
<1>3. hc.overload \in BOOLEAN
  BY <1>2 DEF host_info
<1>4. \/ overload /\ Store(a, set_overload(hc)) /\ MoveToOverload(a)
      \/ idle /\ Store(a, set_idle(hc)) /\ MoveToIdle(a)
      \/ /\ Store(a, set_idle(hc))
         /\ IF hc.overload THEN MoveToIdle(a) ELSE UNCHANGED <<idle_list, overload_list>>
      \/ /\ ~overload /\ ~idle /\ Store(a, hc)
         /\ UNCHANGED <<idle_list, overload_list>>
  BY DEF Judge
<1> HIDE DEF hc
<1>5. CASE overload /\ Store(a, set_overload(hc)) /\ MoveToOverload(a)
  BY <1>2, <1>5, SetOverloadGood DEF Store
<1>6. CASE idle /\ Store(a, set_idle(hc)) /\ MoveToIdle(a)
  BY <1>2, <1>6, SetIdleGood DEF Store
<1>7. CASE /\ Store(a, set_idle(hc))
           /\ IF hc.overload THEN MoveToIdle(a) ELSE UNCHANGED <<idle_list, overload_list>>
  <2>1. CASE hc.overload
    BY <1>2, <1>7, <2>1, SetIdleGood DEF Store
  <2>2. CASE ~hc.overload
    BY <1>2, <1>3, <1>7, <2>2, SetIdleGood DEF Store, Good, host_info
  <2> QED
    BY <1>3, <2>1, <2>2
<1>8. CASE ~overload /\ ~idle /\ Store(a, hc) /\ UNCHANGED <<idle_list, overload_list>>
  BY <1>2, <1>8 DEF Store, Unjudged
<1> QED
  BY <1>4, <1>5, <1>6, <1>7, <1>8

(* report() keeps the heap and the map consistent, also through a key      *)
(* whose address was reused.                                               *)
LEMMA HeapReported ==
  ASSUME HeapInv, NEW h \in Hosts, NEW r \in Retcodes, report(h, r)
  PROVE  HeapInv'
<1>1. CASE Fault
  BY <1>1 DEF Fault, lists, history, HeapInv, HeapType, MapType, HeapGood, LiveIsMapped,
              LiveIsRouted, Live
<1>2. CASE ~Fault
  <2> DEFINE a == host_map[h]
  <2>1. /\ Live(a) /\ Judge(a, r) /\ a \in Addrs
        /\ UNCHANGED <<host_map, routed>>
    BY <1>2 DEF report, HeapInv, MapType
  <2>2. PICK hi : /\ Good(hi) /\ hi.host = heap[a].host
                  /\ heap' = [heap EXCEPT ![a] = hi]
    BY <2>1, JudgeStores
  <2> HIDE DEF a
  <2>3. HeapType'
    BY <2>1, <2>2 DEF HeapInv, HeapType, Good
  <2>4. \A b \in Addrs : /\ Live(b)' => Live(b)
                         /\ heap'[b] = (IF b = a THEN hi ELSE heap[b])
    BY <2>1, <2>2 DEF HeapInv, HeapType, Live
  <2>5. HeapGood' /\ LiveIsMapped' /\ LiveIsRouted'
    BY <2>1, <2>2, <2>4 DEF HeapInv, HeapGood, LiveIsMapped, LiveIsRouted, Live
  <2> QED
    BY <2>1, <2>3, <2>5 DEF HeapInv, MapType
<1> QED
  BY <1>1, <1>2

(* The passing of a second keeps them consistent. *)
LEMMA HeapTicked ==
  ASSUME HeapInv, Tick
  PROVE  HeapInv'
<1>1. \A a \in Addrs : heap'[a] = IF ~Live(a) THEN Freed ELSE Aged(heap[a])
  BY DEF Tick, Aged
<1>2. \A a \in Addrs : Live(a) => /\ Good(heap'[a]) /\ heap'[a].host = heap[a].host
                                  /\ heap'[a] \in host_info
  BY <1>1, AgedGood DEF HeapInv, HeapGood, Good
<1>3. \A a \in Addrs : Live(a)' <=> Live(a)
  BY <1>1, <1>2, FreedAssumption DEF Live
<1>4. HeapType'
  <2>1. heap' = [a \in Addrs |-> heap'[a]]
    BY DEF Tick
  <2>2. \A a \in Addrs : heap'[a] \in host_info \cup {Freed}
    BY <1>1, <1>2
  <2> QED
    BY <2>1, <2>2 DEF HeapType
<1>5. UNCHANGED <<host_map, routed>>
  BY DEF Tick, history
<1>6. MapType'
  BY <1>5 DEF HeapInv, MapType
<1>7. HeapGood' /\ LiveIsMapped' /\ LiveIsRouted'
  BY <1>2, <1>3, <1>5 DEF HeapInv, HeapGood, LiveIsMapped, LiveIsRouted
<1> QED
  BY <1>4, <1>6, <1>7 DEF HeapInv

(* Where the new hosts of a response go. *)
CellFacts(rsp, cell) ==
  /\ DOMAIN cell = NewHosts(rsp) /\ IsInjective(cell)
  /\ \A k \in NewHosts(rsp) : /\ k \in Hosts /\ k \in rsp /\ k \notin DOMAIN host_map
                              /\ cell[k] \in Addrs /\ ~Live(cell[k])
  /\ DOMAIN Inserted(cell) = DOMAIN host_map \cup NewHosts(rsp)
  /\ \A k \in NewHosts(rsp) : Inserted(cell)[k] = cell[k]
  /\ \A k \in DOMAIN host_map : Inserted(cell)[k] = host_map[k]
  /\ Allocated(cell) \in [Addrs -> host_info \cup {Freed}]
  /\ \A k \in NewHosts(rsp) : /\ Good(Allocated(cell)[cell[k]])
                              /\ Allocated(cell)[cell[k]].host = k
                              /\ ~Allocated(cell)[cell[k]].overload
  /\ \A a \in Addrs : (\A k \in NewHosts(rsp) : cell[k] # a)
                        => Allocated(cell)[a] = heap[a]

(* What Inserted and Allocated give for the new hosts and leave to the old *)
(* ones.                                                                   *)
LEMMA Cells ==
  ASSUME HeapInv, NEW rsp \in SUBSET Hosts,
         NEW cell \in Injection(NewHosts(rsp), {a \in Addrs : ~Live(a)})
  PROVE  CellFacts(rsp, cell)
<1>1. /\ DOMAIN cell = NewHosts(rsp) /\ IsInjective(cell)
      /\ \A k \in NewHosts(rsp) : cell[k] \in Addrs /\ ~Live(cell[k])
  BY DEF Injection, IsInjective
<1>2. \A k \in NewHosts(rsp) : k \in Hosts /\ k \in rsp /\ k \notin DOMAIN host_map
  BY DEF NewHosts
<1>3. /\ DOMAIN Inserted(cell) = DOMAIN host_map \cup NewHosts(rsp)
      /\ \A k \in NewHosts(rsp) : Inserted(cell)[k] = cell[k]
      /\ \A k \in DOMAIN host_map : Inserted(cell)[k] = host_map[k]
  BY <1>1, <1>2 DEF Inserted
<1>4. ASSUME NEW a \in Addrs, \A k \in NewHosts(rsp) : cell[k] # a
      PROVE  Allocated(cell)[a] = heap[a]
  BY <1>1, <1>4 DEF Allocated
<1>5. ASSUME NEW k \in NewHosts(rsp)
      PROVE  Allocated(cell)[cell[k]] = new_host_info(k)
  <2>1. \E j \in DOMAIN cell : cell[j] = cell[k]
    BY <1>1
  <2>2. (CHOOSE j \in DOMAIN cell : cell[j] = cell[k]) = k
    BY <1>1 DEF IsInjective
  <2> QED
    BY <1>1, <2>1, <2>2 DEF Allocated
<1>6. \A k \in NewHosts(rsp) : /\ Good(Allocated(cell)[cell[k]])
                               /\ Allocated(cell)[cell[k]].host = k
                               /\ ~Allocated(cell)[cell[k]].overload
  BY <1>2, <1>5, NewGood
<1>7. Allocated(cell) \in [Addrs -> host_info \cup {Freed}]
  <2>1. ASSUME NEW a \in Addrs
        PROVE  Allocated(cell)[a] \in host_info \cup {Freed}
    <3>1. CASE \E k \in NewHosts(rsp) : cell[k] = a
      BY <1>6, <3>1 DEF Good
    <3>2. CASE \A k \in NewHosts(rsp) : cell[k] # a
      BY <1>4, <3>2 DEF HeapInv, HeapType
    <3> QED
      BY <3>1, <3>2
  <2>2. Allocated(cell) = [a \in Addrs |-> Allocated(cell)[a]]
    BY DEF Allocated
  <2> QED
    BY <2>1, <2>2
<1> QED
  BY <1>1, <1>2, <1>3, <1>4, <1>6, <1>7 DEF CellFacts

(* update(): a host that stays allocated was mapped by its own key and is  *)
(* in the response.                                                        *)
LEMMA HeapUpdated ==
  ASSUME HeapInv, NEW rsp \in SUBSET Hosts, update_any(rsp)
  PROVE  HeapInv'
<1>0. PICK cell \in Injection(NewHosts(rsp), {a \in Addrs : ~Live(a)}) :
        \E q \in Bijection(1..Cardinality(NewHosts(rsp)), {cell[k] : k \in NewHosts(rsp)}) :
          update(rsp, cell, q)
  BY DEF update_any
<1>1. PICK q \in Bijection(1..Cardinality(NewHosts(rsp)), {cell[k] : k \in NewHosts(rsp)}) :
        update(rsp, cell, q)
  BY <1>0
<1>c. CellFacts(rsp, cell)
  BY Cells
<1> DEFINE hp == Allocated(cell)
           doomed == {host_map[k] : k \in NeedDelete(rsp)}
<1>2. CASE Fault
  BY <1>2 DEF Fault, lists, history, HeapInv, HeapType, MapType, HeapGood, LiveIsMapped,
              LiveIsRouted, Live
<1>3. CASE ~Fault
  <2>1. /\ host_map' = Inserted(cell)
        /\ heap' = [a \in Addrs |-> IF a \in doomed THEN Freed ELSE hp[a]]
        /\ routed' = rsp
    BY <1>1, <1>3 DEF update
  <2>2. /\ DOMAIN host_map' = DOMAIN host_map \cup NewHosts(rsp)
        /\ \A k \in NewHosts(rsp) : /\ host_map'[k] = cell[k] /\ k \in Hosts /\ k \in rsp
                                    /\ cell[k] \in Addrs /\ k \notin DOMAIN host_map
        /\ \A k \in DOMAIN host_map : host_map'[k] = host_map[k]
        /\ hp \in [Addrs -> host_info \cup {Freed}]
    BY <2>1, <1>c DEF CellFacts
  <2>3. HeapType'
    BY <2>1, <2>2 DEF HeapType
  <2>4. MapType'
    BY <2>2 DEF HeapInv, MapType
  <2>5. ASSUME NEW a \in Addrs, Live(a)'
        PROVE  /\ Good(heap'[a]) /\ heap'[a].host \in rsp
               /\ heap'[a].host \in DOMAIN host_map' /\ host_map'[heap'[a].host] = a
    <3>1. a \notin doomed /\ heap'[a] = hp[a] /\ hp[a] # Freed
      BY <2>1, <2>5 DEF Live
    <3>2. CASE \E k \in NewHosts(rsp) : cell[k] = a
      <4>1. PICK k \in NewHosts(rsp) : cell[k] = a
        BY <3>2
      <4>2. Good(hp[a]) /\ hp[a].host = k
        BY <4>1, <1>c DEF CellFacts
      <4> QED
        BY <2>2, <3>1, <4>1, <4>2
    <3>3. CASE \A k \in NewHosts(rsp) : cell[k] # a
      <4>1. hp[a] = heap[a]
        BY <3>3, <1>c DEF CellFacts
      <4>2. Live(a)
        BY <3>1, <4>1 DEF Live
      <4>3. /\ Good(heap[a]) /\ heap[a].host \in DOMAIN host_map
            /\ host_map[heap[a].host] = a
        BY <4>2 DEF HeapInv, HeapGood, LiveIsMapped
      <4>4. heap[a].host \notin NeedDelete(rsp)
        BY <3>1, <4>3
      <4> QED
        BY <2>2, <3>1, <4>1, <4>3, <4>4 DEF NeedDelete
    <3> QED
      BY <3>2, <3>3
  <2>6. HeapGood' /\ LiveIsMapped' /\ LiveIsRouted'
    BY <2>1, <2>5 DEF HeapGood, LiveIsMapped, LiveIsRouted
  <2> QED
    BY <2>3, <2>4, <2>6 DEF HeapInv
<1> QED
  BY <1>2, <1>3

(* Only report(), update() and the clock change the heap, only update()    *)
(* the map.                                                                *)
LEMMA HeapStep == HeapInv /\ [Next]_vars => HeapInv'
<1> SUFFICES ASSUME HeapInv, [Next]_vars PROVE HeapInv'
  OBVIOUS
<1>1. CASE UNCHANGED <<host_map, heap, routed>>
  BY <1>1 DEF HeapInv, HeapType, MapType, HeapGood, LiveIsMapped, LiveIsRouted, Live
<1>2. ASSUME NEW h \in Hosts, NEW r \in Retcodes, report(h, r)
      PROVE  HeapInv'
  BY <1>2, HeapReported
<1>3. ASSUME NEW rsp \in Responses, update_any(rsp)
      PROVE  HeapInv'
  BY <1>3, HeapUpdated, ConfigAssumption
<1>4. CASE Tick
  BY <1>4, HeapTicked
<1>5. CASE choice_one_host \/ commit \/ take_reports \/ UNCHANGED vars
  BY <1>1, <1>5 DEF choice_one_host, commit, take_reports, vars, lists, history
<1> QED
  BY <1>2, <1>3, <1>4, <1>5 DEF Next

(* HeapInv is inductive. *)
LEMMA HeapInvariant == Spec => []HeapInv
<1>1. Init => HeapInv
  BY DEF Init, HeapInv, HeapType, MapType, HeapGood, LiveIsMapped, LiveIsRouted, Live
<1> QED
  BY <1>1, HeapStep, PTL DEF Spec

(* A report about a live host reaches it, whatever addresses were reused. *)
THEOREM LiveHostsAreMapped == Spec => []LiveIsMapped
<1>1. HeapInv => LiveIsMapped
  BY DEF HeapInv
<1> QED
  BY <1>1, HeapInvariant, PTL

(* No host is past a threshold it should have been judged by. *)
THEOREM JudgedInTime == Spec => []NoLateJudgement
<1>1. HeapInv => NoLateJudgement
  BY DEF HeapInv, HeapGood, Good, Timely, NoLateJudgement
<1> QED
  BY <1>1, HeapInvariant, PTL

(* The virtual and the real counters of a host describe one window. *)
THEOREM OneWindow == Spec => []CountersShareTheWindow
<1>1. HeapInv => CountersShareTheWindow
  BY DEF HeapInv, HeapGood, Good, Window, CountersShareTheWindow
<1> QED
  BY <1>1, HeapInvariant, PTL
-----------------------------------------------------------------------------
(* Every nonempty set of numbers has a least one. *)
LEMMA LeastNumber ==
  ASSUME NEW T, T \subseteq Nat, T # {}
  PROVE  \E n \in T : \A m \in T : ~(m < n)
<1>1. \E n \in T : \A m \in T : ~(<<m, n>> \in OpToRel(<, Nat))
  BY NatLessThanWellFounded, WFMin
<1> QED
  BY <1>1 DEF OpToRel

(* The function inside Without, up to index n. *)
KeptUpTo(l, D, n, kept) ==
  kept = [i \in 0..n |->
            IF i = 0 THEN << >>
            ELSE IF l[i] \in D THEN kept[i-1] ELSE Append(kept[i-1], l[i])]

(* That function exists: the least n without one would have a predecessor  *)
(* to extend.                                                              *)
LEMMA KeptExists ==
  ASSUME NEW l, NEW D, NEW n \in Nat
  PROVE  \E kept : KeptUpTo(l, D, n, kept)
<1> DEFINE Bad == {m \in Nat : ~ \E kept : KeptUpTo(l, D, m, kept)}
<1>1. SUFFICES ASSUME Bad # {} PROVE FALSE
  OBVIOUS
<1>2. PICK m \in Bad : \A k \in Bad : ~(k < m)
  <2>1. Bad \subseteq Nat
    OBVIOUS
  <2> HIDE DEF Bad
  <2> QED
    BY <1>1, <2>1, LeastNumber
<1>3. m \in Nat /\ ~ \E kept : KeptUpTo(l, D, m, kept)
  OBVIOUS
<1>4. CASE m = 0
  <2>1. KeptUpTo(l, D, 0, [i \in 0..0 |-> << >>])
    BY DEF KeptUpTo
  <2> QED
    BY <1>3, <1>4, <2>1
<1>5. CASE m # 0
  <2>1. m - 1 \in Nat /\ m - 1 < m
    BY <1>3, <1>5
  <2>2. m - 1 \notin Bad
    BY <1>2, <2>1
  <2>3. PICK kept : KeptUpTo(l, D, m - 1, kept)
    BY <2>1, <2>2
  <2> DEFINE longer == [i \in 0..m |->
                          IF i < m THEN kept[i]
                          ELSE IF l[m] \in D THEN kept[m-1] ELSE Append(kept[m-1], l[m])]
  <2>4. ASSUME NEW i \in 0..m
        PROVE  longer[i] = IF i = 0 THEN << >>
                           ELSE IF l[i] \in D THEN longer[i-1] ELSE Append(longer[i-1], l[i])
    <3>1. CASE i = m
      BY <1>3, <1>5, <2>1, <3>1
    <3>2. CASE i # m
      <4>1. i \in 0..(m-1) /\ i < m /\ (i # 0 => i - 1 \in 0..m /\ i - 1 < m)
        BY <1>3, <3>2
      <4>2. kept[i] = IF i = 0 THEN << >>
                      ELSE IF l[i] \in D THEN kept[i-1] ELSE Append(kept[i-1], l[i])
        BY <2>3, <4>1 DEF KeptUpTo
      <4> QED
        BY <4>1, <4>2
    <3> QED
      BY <3>1, <3>2
  <2> HIDE DEF longer
  <2>5. longer = [i \in 0..m |-> longer[i]]
    BY DEF longer
  <2>6. KeptUpTo(l, D, m, longer)
    BY <2>4, <2>5 DEF KeptUpTo
  <2> QED
    BY <1>3, <2>6
<1> QED
  BY <1>4, <1>5

(* std::list::remove: the same elements but those of D, in order. *)
LEMMA WithoutProperties ==
  ASSUME NEW S, NEW l \in Seq(S), NEW D
  PROVE  /\ Without(l, D) \in Seq(S)
         /\ Range(Without(l, D)) = Range(l) \ D
         /\ IsInjective(l) => IsInjective(Without(l, D))
<1> DEFINE n == Len(l)
<1>1. n \in Nat
  OBVIOUS
<1> DEFINE kept == CHOOSE k : KeptUpTo(l, D, n, k)
<1>2. KeptUpTo(l, D, n, kept) /\ Without(l, D) = kept[n]
  <2>1. KeptUpTo(l, D, n, kept)
    <3>1. \E k : KeptUpTo(l, D, n, k)
      BY <1>1, KeptExists
    <3> QED
      BY <3>1
  <2>2. Without(l, D) = kept[n]
    BY DEF Without, KeptUpTo
  <2> QED
    BY <2>1, <2>2
<1> HIDE DEF kept
<1> DEFINE Upto(i) == {l[j] : j \in 1..i}
           P(i) == /\ kept[i] \in Seq(S)
                   /\ Range(kept[i]) = Upto(i) \ D
                   /\ IsInjective(l) => IsInjective(kept[i])
           Bad == {i \in 0..n : ~P(i)}
<1>3. kept[0] = << >>
  BY <1>1, <1>2 DEF KeptUpTo
<1>4. ASSUME NEW i \in 1..n
      PROVE  kept[i] = IF l[i] \in D THEN kept[i-1] ELSE Append(kept[i-1], l[i])
  <2>1. i \in 0..n /\ i # 0
    BY <1>1
  <2> HIDE DEF n
  <2> QED
    BY <1>2, <2>1 DEF KeptUpTo
<1>5. P(0)
  BY <1>3 DEF Range, IsInjective
<1>6. ASSUME NEW i \in 1..n, P(i-1)
      PROVE  P(i)
  <2>1. l[i] \in S /\ i \in Nat /\ i - 1 \in Nat
    BY <1>1
  <2>2. Upto(i) = Upto(i-1) \cup {l[i]}
    <3>1. 1..i = (1..(i-1)) \cup {i}
      BY <2>1
    <3> QED
      BY <3>1
  <2>3. CASE l[i] \in D
    BY <1>4, <1>6, <2>2, <2>3
  <2>4. CASE l[i] \notin D
    <3> DEFINE s == kept[i-1]
    <3>1. kept[i] = Append(s, l[i])
      BY <1>4, <2>4
    <3>2. s \in Seq(S) /\ Range(s) = Upto(i-1) \ D
      BY <1>6
    <3> HIDE DEF s
    <3>3. kept[i] \in Seq(S) /\ Range(kept[i]) = Range(s) \cup {l[i]}
      BY <2>1, <3>1, <3>2 DEF Range
    <3>4. ASSUME IsInjective(l) PROVE IsInjective(kept[i])
      <4>1. l[i] \notin Range(s)
        BY <1>1, <3>2, <3>4 DEF IsInjective
      <4>2. IsInjective(s)
        BY <1>6, <3>4 DEF s
      <4> QED
        BY <2>1, <3>1, <3>2, <4>1, <4>2 DEF IsInjective, Range
    <3>5. Range(kept[i]) = Upto(i) \ D
      BY <2>2, <2>4, <3>2, <3>3
    <3> QED
      BY <3>3, <3>4, <3>5
  <2> QED
    BY <2>3, <2>4
<1>7. Bad = {}
  <2>1. SUFFICES ASSUME Bad # {} PROVE FALSE
    OBVIOUS
  <2>2. Bad \subseteq Nat
    BY <1>1
  <2>3. PICK i \in Bad : \A k \in Bad : ~(k < i)
    <3> HIDE DEF Bad
    <3> QED
      BY <2>1, <2>2, LeastNumber
  <2>4. i \in 0..n /\ ~P(i)
    OBVIOUS
  <2>5. i # 0
    BY <1>5, <2>4
  <2>6. i \in 1..n /\ i - 1 \in 0..n /\ i - 1 < i
    BY <1>1, <2>4, <2>5
  <2>7. P(i-1)
    BY <2>3, <2>6
  <2> QED
    BY <1>6, <2>4, <2>6, <2>7
<1>8. P(n)
  BY <1>1, <1>7
<1>9. Upto(n) = Range(l)
  BY DEF Range
<1> QED
  BY <1>2, <1>8, <1>9

(* Range and IsInjective by position, for a list of length n. *)
ByPosition(l, n) ==
  /\ \A y : y \in Range(l) <=> \E i \in 1..n : y = l[i]
  /\ IsInjective(l) <=> \A i, j \in 1..n : l[i] = l[j] => i = j

(* Both descriptions agree for a sequence. *)
LEMMA ListElements ==
  ASSUME NEW S, NEW l \in Seq(S)
  PROVE  ByPosition(l, Len(l)) /\ Range(l) \subseteq S
<1>1. DOMAIN l = 1..Len(l)
  OBVIOUS
<1> QED
  BY <1>1 DEF Range, IsInjective, ByPosition

(* push_back. *)
LEMMA AppendedProperties ==
  ASSUME NEW S, NEW l \in Seq(S), NEW x \in S
  PROVE  /\ Append(l, x) \in Seq(S)
         /\ Range(Append(l, x)) = Range(l) \cup {x}
         /\ IsInjective(l) /\ x \notin Range(l) => IsInjective(Append(l, x))
<1> DEFINE s == Append(l, x)
           n == Len(l)
<1>1. /\ s \in Seq(S) /\ n \in Nat /\ Len(s) = n + 1
      /\ \A i \in 1..n : s[i] = l[i]
      /\ s[n+1] = x
  BY AppendProperties
<1>2. ByPosition(l, n) /\ ByPosition(s, n + 1)
  BY <1>1, ListElements
<1>3. 1..(n+1) = (1..n) \cup {n+1}
  BY <1>1
<1> HIDE DEF s, n
<1>4. Range(s) = Range(l) \cup {x}
  <2>1. \A y : y \in Range(s) <=> y \in Range(l) \/ y = x
    BY <1>1, <1>2, <1>3 DEF ByPosition
  <2> QED
    BY <2>1
<1>5. ASSUME IsInjective(l), x \notin Range(l) PROVE IsInjective(s)
  BY <1>1, <1>2, <1>3, <1>5 DEF ByPosition
<1> QED
  BY <1>1, <1>4, <1>5 DEF s

(* get_host_from_list: the front moves to the back. *)
LEMMA RotateProperties ==
  ASSUME NEW S, NEW l \in Seq(S), l # << >>
  PROVE  /\ Rotate(l) \in Seq(S)
         /\ Range(Rotate(l)) = Range(l)
         /\ IsInjective(l) => IsInjective(Rotate(l))
<1> DEFINE n == Len(l)
           t == Tail(l)
           x == Head(l)
<1>1. /\ n \in Nat \ {0} /\ t \in Seq(S) /\ x \in S /\ x = l[1]
      /\ Len(t) = n - 1 /\ \A i \in 1..(n-1) : t[i] = l[i+1]
  BY HeadTailProperties
<1>2. ByPosition(l, n) /\ ByPosition(t, n - 1)
  BY <1>1, ListElements
<1> HIDE DEF n, t, x
<1>3. Range(l) = Range(t) \cup {x}
  <2>1. ASSUME NEW y \in Range(l) PROVE y \in Range(t) \/ y = x
    <3>1. PICK i \in 1..n : y = l[i]
      BY <1>2 DEF ByPosition
    <3>2. CASE i = 1
      BY <1>1, <3>1, <3>2
    <3>3. CASE i # 1
      <4>1. i - 1 \in 1..(n-1) /\ t[i-1] = l[i]
        BY <1>1, <3>3
      <4> QED
        BY <1>2, <3>1, <4>1 DEF ByPosition
    <3> QED
      BY <3>2, <3>3
  <2>2. ASSUME NEW y \in Range(t) PROVE y \in Range(l)
    <3>1. PICK i \in 1..(n-1) : y = t[i]
      BY <1>2 DEF ByPosition
    <3>2. i + 1 \in 1..n /\ y = l[i+1]
      BY <1>1, <3>1
    <3> QED
      BY <1>2, <3>2 DEF ByPosition
  <2>3. 1 \in 1..n
    BY <1>1
  <2>4. x \in Range(l)
    BY <1>1, <1>2, <2>3 DEF ByPosition
  <2> QED
    BY <2>1, <2>2, <2>4
<1>4. ASSUME IsInjective(l) PROVE IsInjective(t) /\ x \notin Range(t)
  <2>1. \A i \in 1..(n-1) : i + 1 \in 1..n /\ 1 \in 1..n /\ i + 1 # 1
    BY <1>1
  <2>2. \A i, j \in 1..(n-1) : i + 1 = j + 1 => i = j
    BY <1>1
  <2> QED
    BY <1>1, <1>2, <1>4, <2>1, <2>2 DEF ByPosition
<1>5. Rotate(l) = Append(t, x)
  BY DEF Rotate, t, x
<1>6. /\ Append(t, x) \in Seq(S) /\ Range(Append(t, x)) = Range(t) \cup {x}
      /\ IsInjective(t) /\ x \notin Range(t) => IsInjective(Append(t, x))
  BY <1>1, AppendedProperties
<1> QED
  BY <1>3, <1>4, <1>5, <1>6

(* push_back of every new host. *)
LEMMA ConcatenatedProperties ==
  ASSUME NEW S, NEW l \in Seq(S), NEW q \in Seq(S)
  PROVE  /\ l \o q \in Seq(S)
         /\ Range(l \o q) = Range(l) \cup Range(q)
         /\ IsInjective(l) /\ IsInjective(q) /\ Range(l) \cap Range(q) = {}
              => IsInjective(l \o q)
<1> DEFINE s == l \o q
           n == Len(l)
           m == Len(q)
<1>1. /\ s \in Seq(S) /\ Len(s) = n + m /\ n \in Nat /\ m \in Nat
      /\ \A i \in 1..(n + m) : s[i] = IF i <= n THEN l[i] ELSE q[i - n]
  BY ConcatProperties
<1>2. ByPosition(l, n) /\ ByPosition(q, m) /\ ByPosition(s, n + m)
  BY <1>1, ListElements
<1> HIDE DEF s, n, m
<1>3. \A i \in 1..(n + m) : \/ i \in 1..n /\ s[i] = l[i]
                            \/ i \notin 1..n /\ i - n \in 1..m /\ s[i] = q[i - n]
  BY <1>1
<1>4. Range(s) = Range(l) \cup Range(q)
  <2>1. ASSUME NEW y \in Range(s) PROVE y \in Range(l) \cup Range(q)
    BY <1>2, <1>3 DEF ByPosition
  <2>2. ASSUME NEW y \in Range(l) PROVE y \in Range(s)
    <3>1. PICK i \in 1..n : y = l[i]
      BY <1>2 DEF ByPosition
    <3>2. i \in 1..(n + m) /\ s[i] = l[i]
      BY <1>1, <3>1
    <3> QED
      BY <1>2, <3>1, <3>2 DEF ByPosition
  <2>3. ASSUME NEW y \in Range(q) PROVE y \in Range(s)
    <3>1. PICK i \in 1..m : y = q[i]
      BY <1>2 DEF ByPosition
    <3>2. n + i \in 1..(n + m) /\ ~(n + i <= n) /\ (n + i) - n = i
      BY <1>1, <3>1
    <3>3. s[n + i] = q[i]
      BY <1>1, <3>2
    <3> QED
      BY <1>2, <3>1, <3>2, <3>3 DEF ByPosition
  <2> QED
    BY <2>1, <2>2, <2>3
<1>5. ASSUME IsInjective(l), IsInjective(q), Range(l) \cap Range(q) = {},
             NEW i \in 1..(n + m), NEW j \in 1..(n + m), s[i] = s[j]
      PROVE  i = j
  <2>1. CASE i \in 1..n /\ j \in 1..n
    BY <1>2, <1>3, <1>5, <2>1 DEF ByPosition
  <2>2. CASE i \notin 1..n /\ j \notin 1..n
    <3>1. i - n = j - n
      BY <1>2, <1>3, <1>5, <2>2 DEF ByPosition
    <3> QED
      BY <1>1, <3>1
  <2>3. CASE i \in 1..n /\ j \notin 1..n
    <3>1. s[i] \in Range(l) /\ s[j] \in Range(q)
      BY <1>2, <1>3, <2>3 DEF ByPosition
    <3> QED
      BY <1>5, <3>1
  <2>4. CASE i \notin 1..n /\ j \in 1..n
    <3>1. s[j] \in Range(l) /\ s[i] \in Range(q)
      BY <1>2, <1>3, <2>4 DEF ByPosition
    <3> QED
      BY <1>5, <3>1
  <2> QED
    BY <2>1, <2>2, <2>3, <2>4
<1>6. IsInjective(l) /\ IsInjective(q) /\ Range(l) \cap Range(q) = {} => IsInjective(s)
  BY <1>2, <1>5 DEF ByPosition
<1> QED
  BY <1>1, <1>4, <1>6 DEF s
-----------------------------------------------------------------------------
(* The lists and the heap. *)
ListType == idle_list \in Seq(Addrs) /\ overload_list \in Seq(Addrs)

ListInv == HeapInv /\ ListType /\ ListsPartitionLive

(* choice_one_host only rotates a list. *)
LEMMA ListsChosen ==
  ASSUME ListInv, choice_one_host
  PROVE  ListType' /\ ListsPartitionLive'
<1>1. UNCHANGED heap
  BY DEF choice_one_host
<1>2. /\ idle_list' = idle_list \/ (idle_list # << >> /\ idle_list' = Rotate(idle_list))
      /\ \/ overload_list' = overload_list
         \/ overload_list # << >> /\ overload_list' = Rotate(overload_list)
  BY DEF choice_one_host, get_host_from_idle, get_host_from_overload
<1>3. /\ idle_list' \in Seq(Addrs) /\ Range(idle_list') = Range(idle_list)
      /\ IsInjective(idle_list) => IsInjective(idle_list')
  BY <1>2, RotateProperties DEF ListInv, ListType
<1>4. /\ overload_list' \in Seq(Addrs) /\ Range(overload_list') = Range(overload_list)
      /\ IsInjective(overload_list) => IsInjective(overload_list')
  BY <1>2, RotateProperties DEF ListInv, ListType
<1> QED
  BY <1>1, <1>3, <1>4 DEF ListInv, ListType, ListsPartitionLive, Live

(* report() moves a host to the other list exactly when its flag changes. *)
LEMMA ListsReported ==
  ASSUME ListInv, NEW h \in Hosts, NEW r \in Retcodes, report(h, r)
  PROVE  ListType' /\ ListsPartitionLive'
<1>1. CASE Fault
  BY <1>1 DEF Fault, lists, ListInv, ListType, ListsPartitionLive, Live
<1>2. CASE ~Fault
  <2> DEFINE a == host_map[h]
  <2>1. Live(a) /\ Judge(a, r) /\ a \in Addrs
    BY <1>2 DEF report, ListInv, HeapInv, MapType
  <2>2. HeapInv
    BY DEF ListInv
  <2>3. PICK hi :
          /\ Good(hi) /\ hi.host = heap[a].host
          /\ heap' = [heap EXCEPT ![a] = hi]
          /\ \/ /\ hi.overload = heap[a].overload
                /\ UNCHANGED <<idle_list, overload_list>>
             \/ hi.overload /\ ~heap[a].overload /\ MoveToOverload(a)
             \/ ~hi.overload /\ heap[a].overload /\ MoveToIdle(a)
    BY <2>1, <2>2, JudgeStores
  <2> HIDE DEF a
  <2>4. /\ idle_list \in Seq(Addrs) /\ overload_list \in Seq(Addrs)
        /\ IsInjective(idle_list) /\ IsInjective(overload_list)
        /\ Range(idle_list) = {b \in Addrs : Live(b) /\ ~heap[b].overload}
        /\ Range(overload_list) = {b \in Addrs : Live(b) /\ heap[b].overload}
    BY DEF ListInv, ListType, ListsPartitionLive
  <2>5. /\ \A b \in Addrs : Live(b)' <=> Live(b)
        /\ \A b \in Addrs : heap'[b] = IF b = a THEN hi ELSE heap[b]
    BY <2>1, <2>2, <2>3, FreedAssumption DEF HeapInv, HeapType, Live, Good
  <2>6. /\ {b \in Addrs : Live(b)' /\ ~heap'[b].overload}
             = {b \in Addrs : Live(b) /\ ~(IF b = a THEN hi ELSE heap[b]).overload}
        /\ {b \in Addrs : Live(b)' /\ heap'[b].overload}
             = {b \in Addrs : Live(b) /\ (IF b = a THEN hi ELSE heap[b]).overload}
    BY <2>5
  <2>7. CASE hi.overload = heap[a].overload /\ UNCHANGED <<idle_list, overload_list>>
    BY <2>4, <2>6, <2>7 DEF ListType, ListsPartitionLive, Live
  <2>8. CASE hi.overload /\ ~heap[a].overload /\ MoveToOverload(a)
    <3>1. /\ idle_list' \in Seq(Addrs) /\ IsInjective(idle_list')
          /\ Range(idle_list') = Range(idle_list) \ {a}
      BY <2>4, <2>8, WithoutProperties DEF MoveToOverload
    <3>2. a \notin Range(overload_list)
      BY <2>4, <2>8
    <3>3. /\ overload_list' \in Seq(Addrs) /\ IsInjective(overload_list')
          /\ Range(overload_list') = Range(overload_list) \cup {a}
      BY <2>1, <2>4, <2>8, <3>2, AppendedProperties DEF MoveToOverload
    <3> QED
      BY <2>1, <2>4, <2>6, <2>8, <3>1, <3>3 DEF ListType, ListsPartitionLive, Live
  <2>9. CASE ~hi.overload /\ heap[a].overload /\ MoveToIdle(a)
    <3>1. /\ overload_list' \in Seq(Addrs) /\ IsInjective(overload_list')
          /\ Range(overload_list') = Range(overload_list) \ {a}
      BY <2>4, <2>9, WithoutProperties DEF MoveToIdle
    <3>2. a \notin Range(idle_list)
      BY <2>4, <2>9
    <3>3. /\ idle_list' \in Seq(Addrs) /\ IsInjective(idle_list')
          /\ Range(idle_list') = Range(idle_list) \cup {a}
      BY <2>1, <2>4, <2>9, <3>2, AppendedProperties DEF MoveToIdle
    <3> QED
      BY <2>1, <2>4, <2>6, <2>9, <3>1, <3>3 DEF ListType, ListsPartitionLive, Live
  <2> QED
    BY <2>3, <2>7, <2>8, <2>9
<1> QED
  BY <1>1, <1>2

(* Time changes no flag. *)
LEMMA ListsTicked ==
  ASSUME ListInv, Tick
  PROVE  ListType' /\ ListsPartitionLive'
<1>1. \A a \in Addrs : heap'[a] = IF ~Live(a) THEN Freed ELSE Aged(heap[a])
  BY DEF Tick, Aged
<1>2. \A a \in Addrs : Live(a) => /\ heap'[a].overload = heap[a].overload
                                  /\ heap'[a] \in host_info
  BY <1>1, AgedGood DEF ListInv, HeapInv, HeapGood, Good
<1>3. \A a \in Addrs : Live(a)' <=> Live(a)
  BY <1>1, <1>2, FreedAssumption DEF Live
<1>4. UNCHANGED <<idle_list, overload_list>>
  BY DEF Tick
<1> QED
  BY <1>2, <1>3, <1>4 DEF ListInv, ListType, ListsPartitionLive

(* update() takes a pointer out of the list its flag names before it       *)
(* deletes the object, and adds the new hosts to the idle list.            *)
LEMMA ListsUpdated ==
  ASSUME ListInv, NEW rsp \in SUBSET Hosts, update_any(rsp)
  PROVE  ListType' /\ ListsPartitionLive'
<1>0. PICK cell \in Injection(NewHosts(rsp), {a \in Addrs : ~Live(a)}) :
        \E q \in Bijection(1..Cardinality(NewHosts(rsp)), {cell[k] : k \in NewHosts(rsp)}) :
          update(rsp, cell, q)
  BY DEF update_any
<1>1. PICK q \in Bijection(1..Cardinality(NewHosts(rsp)), {cell[k] : k \in NewHosts(rsp)}) :
        update(rsp, cell, q)
  BY <1>0
<1>2. CASE Fault
  BY <1>2 DEF Fault, lists, ListInv, ListType, ListsPartitionLive, Live
<1>3. CASE ~Fault
  <2> DEFINE hp == Allocated(cell)
             doomed == {host_map[k] : k \in NeedDelete(rsp)}
             placed == {cell[k] : k \in NewHosts(rsp)}
  <2>1. CellFacts(rsp, cell)
    BY Cells DEF ListInv
  <2>2. /\ heap' = [a \in Addrs |-> IF a \in doomed THEN Freed ELSE hp[a]]
        /\ idle_list' = Without(idle_list \o q, {a \in doomed : ~hp[a].overload})
        /\ overload_list' = Without(overload_list, {a \in doomed : hp[a].overload})
    BY <1>1, <1>3 DEF update
  <2>3. q \in Seq(Addrs) /\ IsInjective(q) /\ Range(q) = placed
    <3>1. Cardinality(NewHosts(rsp)) \in Nat
      BY ConfigAssumption, FS_Subset, FS_CardinalityType DEF NewHosts
    <3>2. placed \subseteq Addrs
      BY <2>1 DEF CellFacts
    <3>3. /\ q \in [1..Cardinality(NewHosts(rsp)) -> placed] /\ IsInjective(q)
          /\ \A t \in placed : \E i \in 1..Cardinality(NewHosts(rsp)) : q[i] = t
      BY <1>1 DEF Bijection, Injection, Surjection
    <3> HIDE DEF placed
    <3>4. q \in Seq(Addrs) /\ Range(q) = placed
      BY <3>1, <3>2, <3>3 DEF Range
    <3> QED
      BY <3>3, <3>4
  <2>4. /\ idle_list \in Seq(Addrs) /\ overload_list \in Seq(Addrs)
        /\ IsInjective(idle_list) /\ IsInjective(overload_list)
        /\ Range(idle_list) = {b \in Addrs : Live(b) /\ ~heap[b].overload}
        /\ Range(overload_list) = {b \in Addrs : Live(b) /\ heap[b].overload}
    BY DEF ListInv, ListType, ListsPartitionLive
  <2>5. \A b \in placed : b \in Addrs /\ ~Live(b) /\ hp[b] # Freed /\ ~hp[b].overload
    BY <2>1, FreedAssumption DEF CellFacts, Good
  <2>6. \A b \in Addrs : b \notin placed => hp[b] = heap[b]
    BY <2>1 DEF CellFacts
  <2> HIDE DEF hp, doomed, placed
  <2>7. Range(idle_list) \cap placed = {}
    BY <2>4, <2>5
  <2>8. /\ idle_list \o q \in Seq(Addrs) /\ IsInjective(idle_list \o q)
        /\ Range(idle_list \o q) = Range(idle_list) \cup placed
    BY <2>3, <2>4, <2>7, ConcatenatedProperties
  <2>9. /\ Range(idle_list) \cup placed = {b \in Addrs : hp[b] # Freed /\ ~hp[b].overload}
        /\ Range(overload_list) = {b \in Addrs : hp[b] # Freed /\ hp[b].overload}
    BY <2>4, <2>5, <2>6 DEF Live
  <2>10. /\ idle_list' \in Seq(Addrs) /\ IsInjective(idle_list')
         /\ Range(idle_list') = {b \in Addrs : hp[b] # Freed /\ ~hp[b].overload} \ doomed
    <3> DEFINE joined == idle_list \o q
               removed == {a \in doomed : ~hp[a].overload}
    <3> HIDE DEF joined, removed
    <3>1. /\ joined \in Seq(Addrs) /\ IsInjective(joined)
          /\ Range(joined) = {b \in Addrs : hp[b] # Freed /\ ~hp[b].overload}
      BY <2>8, <2>9 DEF joined
    <3>2. idle_list' = Without(joined, removed)
      BY <2>2 DEF joined, removed
    <3>3. /\ idle_list' \in Seq(Addrs) /\ IsInjective(idle_list')
          /\ Range(idle_list') = Range(joined) \ removed
      BY <3>1, <3>2, WithoutProperties
    <3> QED
      BY <3>1, <3>3 DEF removed
  <2>11. /\ overload_list' \in Seq(Addrs) /\ IsInjective(overload_list')
         /\ Range(overload_list') = {b \in Addrs : hp[b] # Freed /\ hp[b].overload} \ doomed
    BY <2>2, <2>4, <2>9, WithoutProperties
  <2>12. /\ {b \in Addrs : Live(b)' /\ ~heap'[b].overload}
              = {b \in Addrs : hp[b] # Freed /\ ~hp[b].overload} \ doomed
         /\ {b \in Addrs : Live(b)' /\ heap'[b].overload}
              = {b \in Addrs : hp[b] # Freed /\ hp[b].overload} \ doomed
    BY <2>2 DEF Live
  <2> QED
    BY <2>10, <2>11, <2>12 DEF ListType, ListsPartitionLive, Live
<1> QED
  BY <1>2, <1>3

(* Every operation keeps the lists a partition of the live hosts. *)
LEMMA ListStep == ListInv /\ [Next]_vars => ListInv'
<1> SUFFICES ASSUME ListInv, [Next]_vars PROVE ListInv'
  OBVIOUS
<1>1. HeapInv'
  BY HeapStep DEF ListInv
<1>2. CASE UNCHANGED <<heap, idle_list, overload_list>>
  BY <1>1, <1>2 DEF ListInv, ListType, ListsPartitionLive, Live
<1>3. ASSUME NEW h \in Hosts, NEW r \in Retcodes, report(h, r)
      PROVE  ListInv'
  BY <1>1, <1>3, ListsReported DEF ListInv
<1>4. ASSUME NEW rsp \in Responses, update_any(rsp)
      PROVE  ListInv'
  BY <1>1, <1>4, ListsUpdated, ConfigAssumption DEF ListInv
<1>5. CASE choice_one_host
  BY <1>1, <1>5, ListsChosen DEF ListInv
<1>6. CASE Tick
  BY <1>1, <1>6, ListsTicked DEF ListInv
<1>7. CASE commit \/ take_reports \/ UNCHANGED vars
  BY <1>2, <1>7 DEF commit, take_reports, vars, lists
<1> QED
  BY <1>3, <1>4, <1>5, <1>6, <1>7 DEF Next

(* ListInv is inductive. *)
LEMMA ListInvariant == Spec => []ListInv
<1>1. Init => ListInv
  <2> SUFFICES ASSUME Init PROVE ListInv
    OBVIOUS
  <2>1. HeapInv
    BY DEF Init, HeapInv, HeapType, MapType, HeapGood, LiveIsMapped, LiveIsRouted, Live
  <2>2. ListType
    BY DEF Init, ListType
  <2>3. ListsPartitionLive
    BY DEF Init, ListsPartitionLive, Live, Range, IsInjective
  <2> QED
    BY <2>1, <2>2, <2>3 DEF ListInv
<1> QED
  BY <1>1, ListStep, PTL DEF Spec

(* The lists hold each live host once, on the side its flag says. *)
THEOREM ListsArePartition == Spec => []ListsPartitionLive
<1>1. ListInv => ListsPartitionLive
  BY DEF ListInv
<1> QED
  BY <1>1, ListInvariant, PTL

(* Every host that can be handed out is in the last response. *)
LEMMA ServedAreRouted == ListInv => Served \subseteq routed
  BY DEF ListInv, HeapInv, LiveIsRouted, ListsPartitionLive, Served
-----------------------------------------------------------------------------
(* As long as nothing was deleted, every key of the map leads to its host. *)
KeysAreLive ==
  dropped = {} =>
    /\ DOMAIN host_map = routed
    /\ \A k \in routed : Live(host_map[k]) /\ heap[host_map[k]].host = k

(* A response that removes nothing extends the map to exactly its hosts. *)
LEMMA KeysUpdated ==
  ASSUME ListInv, KeysAreLive, NEW rsp \in SUBSET Hosts, update_any(rsp)
  PROVE  KeysAreLive'
<1>0. PICK cell \in Injection(NewHosts(rsp), {a \in Addrs : ~Live(a)}) :
        \E q \in Bijection(1..Cardinality(NewHosts(rsp)), {cell[k] : k \in NewHosts(rsp)}) :
          update(rsp, cell, q)
  BY DEF update_any
<1>1. PICK q \in Bijection(1..Cardinality(NewHosts(rsp)), {cell[k] : k \in NewHosts(rsp)}) :
        update(rsp, cell, q)
  BY <1>0
<1>2. CASE Fault
  BY <1>2 DEF Fault, lists, history, KeysAreLive, Live
<1>3. CASE ~Fault
  <2> SUFFICES ASSUME dropped' = {}
               PROVE  /\ DOMAIN host_map' = routed'
                      /\ \A k \in routed' : Live(host_map[k])' /\ heap'[host_map'[k]].host = k
    BY DEF KeysAreLive
  <2> DEFINE hp == Allocated(cell)
             doomed == {host_map[k] : k \in NeedDelete(rsp)}
  <2>1. CellFacts(rsp, cell)
    BY Cells DEF ListInv
  <2>2. /\ host_map' = Inserted(cell) /\ routed' = rsp
        /\ heap' = [a \in Addrs |-> IF a \in doomed THEN Freed ELSE hp[a]]
        /\ dropped' = dropped \cup NeedDelete(rsp)
    BY <1>1, <1>3 DEF update
  <2>3. NeedDelete(rsp) = {} /\ doomed = {} /\ dropped = {}
    BY <2>2
  <2>4. /\ DOMAIN host_map = routed
        /\ \A k \in routed : /\ Live(host_map[k]) /\ heap[host_map[k]].host = k
                            /\ host_map[k] \in Addrs
    BY <2>3 DEF KeysAreLive, ListInv, HeapInv, MapType
  <2>5. \A a \in Addrs : heap'[a] = hp[a]
    BY <2>2, <2>3
  <2>6. DOMAIN host_map' = rsp
    BY <2>1, <2>2, <2>3 DEF CellFacts, NeedDelete, NewHosts
  <2>7. ASSUME NEW k \in rsp
        PROVE  /\ host_map'[k] \in Addrs /\ hp[host_map'[k]] # Freed
               /\ hp[host_map'[k]].host = k
    <3>1. CASE k \in NewHosts(rsp)
      BY <2>1, <2>2, <3>1, FreedAssumption DEF CellFacts, Good
    <3>2. CASE k \notin NewHosts(rsp)
      <4>1. k \in DOMAIN host_map /\ host_map'[k] = host_map[k]
        BY <2>1, <2>2, <3>2 DEF CellFacts, NewHosts
      <4>2. hp[host_map[k]] = heap[host_map[k]]
        BY <2>1, <2>4, <4>1 DEF CellFacts
      <4> QED
        BY <2>4, <4>1, <4>2 DEF Live
    <3> QED
      BY <3>1, <3>2
  <2> QED
    BY <2>2, <2>5, <2>6, <2>7 DEF Live
<1> QED
  BY <1>2, <1>3

(* report() neither frees nor renames a host. *)
LEMMA KeysReported ==
  ASSUME ListInv, KeysAreLive, NEW h \in Hosts, NEW r \in Retcodes, report(h, r)
  PROVE  KeysAreLive'
<1>1. CASE Fault
  BY <1>1 DEF Fault, lists, history, KeysAreLive, Live
<1>2. CASE ~Fault
  <2> DEFINE a == host_map[h]
  <2>1. Live(a) /\ Judge(a, r) /\ a \in Addrs /\ UNCHANGED <<host_map, routed, dropped>>
    BY <1>2 DEF report, ListInv, HeapInv, MapType
  <2>2. HeapInv
    BY DEF ListInv
  <2>3. PICK hi : /\ Good(hi) /\ hi.host = heap[a].host
                  /\ heap' = [heap EXCEPT ![a] = hi]
    BY <2>1, <2>2, JudgeStores
  <2> HIDE DEF a
  <2>4. \A b \in Addrs : /\ Live(b) => Live(b)'
                         /\ heap'[b].host = heap[b].host
    BY <2>1, <2>2, <2>3, FreedAssumption DEF HeapInv, HeapType, Live, Good
  <2> QED
    BY <2>1, <2>2, <2>4 DEF KeysAreLive, HeapInv, MapType, Live
<1> QED
  BY <1>1, <1>2

(* Neither does the clock. *)
LEMMA KeysTicked ==
  ASSUME ListInv, KeysAreLive, Tick
  PROVE  KeysAreLive'
<1>1. \A a \in Addrs : heap'[a] = IF ~Live(a) THEN Freed ELSE Aged(heap[a])
  BY DEF Tick, Aged
<1>2. \A a \in Addrs : Live(a) => Live(a)' /\ heap'[a].host = heap[a].host
  BY <1>1, AgedGood, FreedAssumption DEF ListInv, HeapInv, HeapGood, Good, Live
<1>3. UNCHANGED <<host_map, routed, dropped>>
  BY DEF Tick, history
<1> QED
  BY <1>2, <1>3 DEF KeysAreLive, ListInv, HeapInv, MapType, Live

(* KeysAreLive is inductive relative to ListInv. *)
LEMMA KeysStep == ListInv /\ KeysAreLive /\ [Next]_vars => KeysAreLive'
<1> SUFFICES ASSUME ListInv, KeysAreLive, [Next]_vars PROVE KeysAreLive'
  OBVIOUS
<1>1. CASE UNCHANGED <<host_map, heap, routed, dropped>>
  BY <1>1 DEF KeysAreLive, Live
<1>2. CASE choice_one_host \/ commit \/ take_reports \/ UNCHANGED vars
  BY <1>1, <1>2 DEF choice_one_host, commit, take_reports, vars, lists, history
<1> QED
  BY <1>2, KeysReported, KeysUpdated, KeysTicked, ConfigAssumption DEF Next

(* Only routed hosts can be handed out, and all of them while no response  *)
(* removed a host.                                                         *)
THEOREM ServedAreTheRoute == Spec => []ServedFollowsRoute
<1>1. Init => KeysAreLive
  BY DEF Init, KeysAreLive
<1>2. ListInv /\ KeysAreLive => ServedFollowsRoute
  <2> SUFFICES ASSUME ListInv, KeysAreLive, dropped = {} PROVE Served = routed
    BY ServedAreRouted DEF ServedFollowsRoute
  <2>1. \A a \in Addrs : /\ Live(a) => heap[a].overload \in BOOLEAN
                         /\ Live(a) => heap[a].host \in routed
    BY DEF ListInv, HeapInv, HeapGood, Good, host_info, LiveIsRouted
  <2>2. Range(idle_list) \cup Range(overload_list) = {a \in Addrs : Live(a)}
    BY <2>1 DEF ListInv, ListsPartitionLive
  <2>3. \A k \in routed : host_map[k] \in Addrs /\ Live(host_map[k]) /\ heap[host_map[k]].host = k
    BY DEF KeysAreLive, ListInv, HeapInv, MapType
  <2> QED
    BY <2>1, <2>2, <2>3 DEF Served
<1> QED
  BY <1>1, <1>2, KeysStep, ListInvariant, PTL DEF Spec
-----------------------------------------------------------------------------
(* Type correctness: what is left once the heap and the lists are typed. *)
RestType ==
  /\ host_map \in [DOMAIN host_map -> Addrs]
  /\ access_cnt \in 0..probe_num
  /\ report_queue \in Seq(SUBSET Rows)
  /\ running \in BOOLEAN
  /\ routed \subseteq Hosts /\ dropped \subseteq Hosts /\ given \subseteq Hosts

(* choice_one_host: the counter stays within probe_num, and only hosts in  *)
(* a list are given.                                                       *)
LEMMA ChosenTyped ==
  ASSUME ListInv, RestType, choice_one_host
  PROVE  RestType'
<1>1. UNCHANGED <<host_map, report_queue, routed, dropped>>
  BY DEF choice_one_host
<1>2. access_cnt' \in 0..probe_num
  <2>1. \/ access_cnt' = 0 \/ access_cnt' = access_cnt
        \/ ~(access_cnt >= probe_num) /\ access_cnt' = access_cnt + 1
    BY DEF choice_one_host, Probing
  <2>2. probe_num \in Nat /\ access_cnt \in 0..probe_num
    BY ConfigAssumption DEF RestType
  <2> QED
    BY <2>1, <2>2
<1>3. running' \in BOOLEAN
  BY DEF choice_one_host, get_host_from_overload, RestType
<1>4. \A a \in Range(idle_list) \cup Range(overload_list) : heap[a].host \in Hosts
  BY DEF ListInv, ListsPartitionLive, HeapInv, HeapGood, Good, host_info
<1>5. /\ idle_list # << >> => Head(idle_list) \in Range(idle_list)
      /\ overload_list # << >> => Head(overload_list) \in Range(overload_list)
  <2>1. ASSUME NEW l \in Seq(Addrs), l # << >> PROVE Head(l) \in Range(l)
    <3>1. 1 \in 1..Len(l) /\ Head(l) = l[1]
      BY <2>1
    <3> QED
      BY <3>1, ListElements DEF ByPosition
  <2> QED
    BY <2>1 DEF ListInv, ListType
<1>6. given' \subseteq Hosts
  <2>1. \/ given' = given
        \/ idle_list # << >> /\ given' = given \cup {heap[Head(idle_list)].host}
        \/ overload_list # << >> /\ given' = given \cup {heap[Head(overload_list)].host}
    BY DEF choice_one_host, get_host_from_idle, get_host_from_overload
  <2> QED
    BY <1>4, <1>5, <2>1 DEF RestType
<1> QED
  BY <1>1, <1>2, <1>3, <1>6 DEF RestType

(* update(): the extended map is a function to addresses. *)
LEMMA UpdateTyped ==
  ASSUME ListInv, RestType, NEW rsp \in SUBSET Hosts, update_any(rsp)
  PROVE  RestType'
<1>0. PICK cell \in Injection(NewHosts(rsp), {a \in Addrs : ~Live(a)}) :
        \E q \in Bijection(1..Cardinality(NewHosts(rsp)), {cell[k] : k \in NewHosts(rsp)}) :
          update(rsp, cell, q)
  BY DEF update_any
<1>1. PICK q \in Bijection(1..Cardinality(NewHosts(rsp)), {cell[k] : k \in NewHosts(rsp)}) :
        update(rsp, cell, q)
  BY <1>0
<1>2. CASE Fault
  BY <1>2 DEF Fault, lists, history, RestType
<1>3. CASE ~Fault
  <2>1. host_map' \in [DOMAIN host_map' -> Addrs]
    <3>1. host_map' = Inserted(cell)
      BY <1>1, <1>3 DEF update
    <3>2. \A k \in DOMAIN host_map \cup DOMAIN cell : Inserted(cell)[k] \in Addrs
      <4>1. CellFacts(rsp, cell)
        BY Cells DEF ListInv
      <4>2. \A k \in DOMAIN host_map : host_map[k] \in Addrs
        BY DEF ListInv, HeapInv, MapType
      <4> QED
        BY <4>1, <4>2 DEF CellFacts
    <3>3. Inserted(cell) = [k \in DOMAIN host_map \cup DOMAIN cell |-> Inserted(cell)[k]]
      BY DEF Inserted
    <3> QED
      BY <3>1, <3>2, <3>3
  <2>2. /\ routed' = rsp /\ dropped' = dropped \cup NeedDelete(rsp)
        /\ UNCHANGED <<access_cnt, report_queue, running, given>>
    BY <1>1, <1>3 DEF update
  <2>3. NeedDelete(rsp) \subseteq Hosts
    BY DEF NeedDelete, ListInv, HeapInv, MapType
  <2> QED
    BY <2>1, <2>2, <2>3, ConfigAssumption DEF RestType
<1> QED
  BY <1>2, <1>3

(* RestType is inductive relative to ListInv. *)
LEMMA TypeStep == ListInv /\ RestType /\ [Next]_vars => RestType'
<1> SUFFICES ASSUME ListInv, RestType, [Next]_vars PROVE RestType'
  OBVIOUS
<1> USE DEF RestType
<1>1. ASSUME NEW h \in Hosts, NEW r \in Retcodes, report(h, r)
      PROVE  RestType'
  <2>1. /\ UNCHANGED <<host_map, access_cnt, report_queue, routed, dropped>>
        /\ running' = FALSE \/ running' = running
        /\ given' = given \/ given' = given \ {h}
    BY <1>1 DEF report, Fault, lists, history
  <2> QED
    BY <2>1
<1>2. CASE commit
  <2>1. ASSUME NEW a \in Range(idle_list) \cup Range(overload_list), NEW b \in BOOLEAN
        PROVE  Row(a, b) \in Rows
    <3>1. heap[a] \in host_info
      BY DEF ListInv, ListsPartitionLive, HeapInv, HeapGood, Good
    <3> QED
      BY <3>1 DEF Row, Rows, host_info
  <2>2. AllRows \in SUBSET Rows
    BY <2>1 DEF AllRows
  <2>3. report_queue' \in Seq(SUBSET Rows)
    BY <1>2, <2>2 DEF commit
  <2> QED
    BY <1>2, <2>3 DEF commit, lists, history
<1>3. CASE take_reports
  BY <1>3 DEF take_reports, lists, history
<1>4. CASE Tick
  BY <1>4 DEF Tick, history
<1>5. CASE UNCHANGED vars
  BY <1>5 DEF vars, lists, history
<1> QED
  BY <1>1, <1>2, <1>3, <1>4, <1>5, ChosenTyped, UpdateTyped, ConfigAssumption DEF Next

(* Type correctness of the load_balance object. *)
THEOREM TypeCorrect == Spec => []TypeOK
<1>1. Init => RestType
  BY ConfigAssumption DEF Init, RestType
<1>2. ListInv /\ RestType => TypeOK
  <2> SUFFICES ASSUME ListInv, RestType PROVE TypeOK
    OBVIOUS
  <2>1. host_map \in PartialFunctions(Hosts, Addrs)
    BY DEF RestType, ListInv, HeapInv, MapType, PartialFunctions
  <2> QED
    BY <2>1 DEF TypeOK, RestType, ListInv, ListType, HeapInv, HeapType
<1> QED
  BY <1>1, <1>2, TypeStep, ListInvariant, PTL DEF Spec
-----------------------------------------------------------------------------
(* A queued report names each host that can be handed out once. *)
LEMMA RowsOfServed ==
  ASSUME ListInv, routed \subseteq Hosts
  PROVE  /\ {r.host : r \in AllRows} = Served
         /\ Cardinality(AllRows) = Cardinality(Served)
<1>1. \A a \in Range(idle_list) : a \in Addrs /\ Live(a) /\ ~heap[a].overload
  BY DEF ListInv, ListsPartitionLive
<1>2. \A a \in Range(overload_list) : a \in Addrs /\ Live(a) /\ heap[a].overload
  BY DEF ListInv, ListsPartitionLive
<1>3. \A a, b \in Addrs : Live(a) /\ Live(b) /\ heap[a].host = heap[b].host => a = b
  BY DEF ListInv, HeapInv, LiveIsMapped
<1>4. \A r \in AllRows : \/ \E a \in Range(idle_list) : r = Row(a, FALSE)
                        \/ \E a \in Range(overload_list) : r = Row(a, TRUE)
  BY DEF AllRows
<1>5. {r.host : r \in AllRows} = Served
  <2>1. \A a, b : Row(a, b).host = heap[a].host
    BY DEF Row
  <2>2. ASSUME NEW r \in AllRows PROVE r.host \in Served
    <3>1. PICK a \in Range(idle_list) \cup Range(overload_list), b \in BOOLEAN : r = Row(a, b)
      BY <1>4
    <3>2. r.host = heap[a].host
      BY <2>1, <3>1
    <3> QED
      BY <3>2 DEF Served
  <2>3. ASSUME NEW h \in Served PROVE \E r \in AllRows : r.host = h
    <3>1. PICK a \in Range(idle_list) \cup Range(overload_list) : h = heap[a].host
      BY DEF Served
    <3>2. Row(a, FALSE) \in AllRows \/ Row(a, TRUE) \in AllRows
      BY <3>1 DEF AllRows
    <3> QED
      BY <2>1, <3>1, <3>2
  <2> QED
    BY <2>2, <2>3
<1>6. ASSUME NEW r \in AllRows, NEW s \in AllRows, r.host = s.host
      PROVE  r = s
  <2>1. PICK a, f : /\ r = Row(a, f) /\ a \in Addrs /\ Live(a)
                    /\ f \in BOOLEAN /\ (f <=> heap[a].overload)
    BY <1>1, <1>2, <1>4
  <2>2. PICK b, g : /\ s = Row(b, g) /\ b \in Addrs /\ Live(b)
                    /\ g \in BOOLEAN /\ (g <=> heap[b].overload)
    BY <1>1, <1>2, <1>4
  <2>3. heap[a].host = heap[b].host
    BY <1>6, <2>1, <2>2 DEF Row
  <2>4. a = b
    BY <1>3, <2>1, <2>2, <2>3
  <2> QED
    BY <2>1, <2>2, <2>4
<1> DEFINE f == [r \in AllRows |-> r.host]
<1>7. f \in Injection(AllRows, Served) /\ f \in Surjection(AllRows, Served)
  <2>1. f \in [AllRows -> Served]
    BY <1>5
  <2>2. \A h \in Served : \E r \in AllRows : f[r] = h
    BY <1>5
  <2> QED
    BY <1>6, <2>1, <2>2 DEF Injection, Surjection, IsInjective
<1>8. IsFiniteSet(Served)
  <2>1. Served \subseteq routed
    BY DEF ListInv, HeapInv, LiveIsRouted, ListsPartitionLive, Served
  <2> QED
    BY <2>1, FS_Subset, ConfigAssumption
<1> QED
  BY <1>5, <1>7, <1>8, FS_Injection

(* commit(): each report that enters report_queue has one row for every    *)
(* host that can be handed out, and no other.                              *)
THEOREM ReportsNameServedHosts == Spec => EachServedHostReportedOnce
<1> DEFINE Queued == Len(report_queue') > Len(report_queue) =>
             LET rows == report_queue'[Len(report_queue')] IN
             /\ {r.host : r \in rows} = Served
             /\ Cardinality(rows) = Cardinality(Served)
<1>1. ListInv /\ RestType /\ [Next]_vars => [Queued]_vars
  <2> SUFFICES ASSUME ListInv, RestType, Next, Len(report_queue') > Len(report_queue)
               PROVE  LET rows == report_queue'[Len(report_queue')] IN
                      /\ {r.host : r \in rows} = Served
                      /\ Cardinality(rows) = Cardinality(Served)
    OBVIOUS
  <2>1. CASE UNCHANGED report_queue
    BY <2>1 DEF RestType
  <2>2. CASE commit
    <3>1. report_queue' = Append(report_queue, AllRows)
      BY <2>2 DEF commit
    <3>2. report_queue'[Len(report_queue')] = AllRows
      BY <3>1 DEF RestType
    <3>3. routed \subseteq Hosts
      BY DEF RestType
    <3> QED
      BY <3>2, <3>3, RowsOfServed
  <2>3. CASE take_reports
    BY <2>3 DEF take_reports, RestType
  <2>4. ASSUME NEW h \in Hosts, NEW r \in Retcodes, report(h, r)
        PROVE  UNCHANGED report_queue
    BY <2>4 DEF report, Fault
  <2>5. ASSUME NEW rsp \in Responses, update_any(rsp)
        PROVE  UNCHANGED report_queue
    BY <2>5 DEF update_any, update, Fault
  <2> QED
    BY <2>1, <2>2, <2>3, <2>4, <2>5
    DEF Next, choice_one_host, Tick
<1>2. Spec => [](ListInv /\ RestType)
  <2>1. Init => RestType
    BY ConfigAssumption DEF Init, RestType
  <2> QED
    BY <2>1, TypeStep, ListInvariant, PTL DEF Spec
<1>3. EachServedHostReportedOnce <=> [][Queued]_vars
  BY DEF EachServedHostReportedOnce
<1> QED
  BY <1>1, <1>2, <1>3, PTL DEF Spec
=============================================================================
