------------------------ MODULE ClientClosingProofs ------------------------
(***************************************************************************)
(* The receiver and the collator close entries without a lock: what goes   *)
(* wrong between them, the statistics and the removals included, starts    *)
(* with an entry that both of them judge.                                  *)
(***************************************************************************)
EXTENDS TwampClientProofs

Closing == {"forward", "aggregate", "pop"}

-----------------------------------------------------------------------------
(* Two closers                                                              *)

(* Nobody looks at an entry that is not yet the front of the list; every    *)
(* verdict goes with a removal, and counts at most once.                    *)
BalanceInv ==
    /\ \A t \in Closers : pc[t] \in {"judge"} \cup Closing => oldest[t] <= popped + 1
    /\ Len(rows) = popped + Popping
    /\ stats["lost"] + stats["server_client"] <= Len(rows)

(* The closers take turns: one of them at most has judged an entry and not  *)
(* removed it, and the rows are those of the entries in their order.        *)
InTurn ==
    /\ \A i \in 1..Len(rows) : rows[i].entry = i
    /\ \A t \in Closers : pc[t] \in Closing => oldest[t] = popped + 1
    /\ \E t \in Closers : pc[t] \notin Closing
    /\ stats["lost"] + stats["server_client"] = Len(rows)

TurnsInv == BalanceInv /\ (TwoVerdicts \/ InTurn)

(* A step that begins, ends and goes on with no verdict.                    *)
ClosingFrame ==
    /\ UNCHANGED <<stats, rows, popped>>
    /\ \A t \in Closers :
         /\ pc[t] \in Closing \/ pc'[t] \in Closing => pc'[t] = pc[t] /\ oldest'[t] = oldest[t]
         /\ pc'[t] = "judge" => oldest'[t] <= popped + 1

Judges(t) == JudgeEntry(t) /\ pc'[t] = "forward"

(* Which steps those are.                                                   *)
LEMMA ClosingFrameSteps ==
    ASSUME Typed, BalanceInv, Next,
           \A t \in Closers : ~Judges(t) /\ ~AggregateForward(t) /\ ~AggregateRest(t) /\ ~Pop(t)
    PROVE  ClosingFrame
<1>1. /\ pc \in [Threads -> Labels] /\ oldest \in [Closers -> 0..Len(raw_data)]
      /\ popped \in Nat
  BY TypedQueues DEF Typed, TypeOK
<1>2. \A t \in Closers : pc[t] = "judge" => oldest[t] <= popped + 1
  BY DEF BalanceInv
<1> USE DEF At, Goto, Return, Threads, Closers, Closing, ClosingFrame, senderVars, collatorVars,
            listVars, closeVars, netVars, timeVars, flagVars
<1>3. CASE Sender
  BY <1>1, <1>2, <1>3 DEF Sender, SenderNext, SenderDone, SendOk, SendFail, SenderObserve
<1>4. CASE ReceiverContinue \/ ReceiverStop \/ RecvTimeout \/ Enqueue
  BY <1>1, <1>2, <1>4 DEF ReceiverContinue, ReceiverStop, RecvTimeout, Enqueue
<1>5. CASE CollatorStart \/ CollatorLoop \/ CollatorPoll
  BY <1>1, <1>2, <1>5 DEF CollatorStart, CollatorLoop, CollatorPoll
<1>6. CASE CollatorPopObs \/ CollatorFind \/ CollatorUpdate
  BY <1>1, <1>2, <1>6 DEF CollatorPopObs, CollatorFind, CollatorUpdate
<1>7. CASE Tick \/ Terminating
  BY <1>1, <1>2, <1>7 DEF Tick, Terminating, vars
<1>8. ASSUME NEW m \in network, RecvPacket(m) \/ RecvTruncated(m) \/ Lose(m) PROVE ClosingFrame
  BY <1>1, <1>2, <1>8 DEF RecvPacket, RecvTruncated, Lose
<1>9. ASSUME NEW t \in Closers, Peek(t) PROVE ClosingFrame
  BY <1>1, <1>2, <1>9 DEF Peek
<1>10. ASSUME NEW t \in Closers, JudgeEmpty(t) \/ PopEmpty(t) PROVE ClosingFrame
  BY <1>1, <1>2, <1>10 DEF JudgeEmpty, PopEmpty
<1>11. ASSUME NEW t \in Closers, JudgeEntry(t) PROVE ClosingFrame
  <2>1. pc' = [pc EXCEPT ![t] = "loop"] /\ oldest' = [oldest EXCEPT ![t] = 0]
    BY <1>1, <1>11 DEF JudgeEntry, Judges
  <2>2. pc[t] = "judge" /\ UNCHANGED <<stats, rows, popped>>
    BY <1>11 DEF JudgeEntry
  <2> QED BY <1>1, <1>2, <2>1, <2>2
<1> QED
  BY <1>3, <1>4, <1>5, <1>6, <1>7, <1>8, <1>9, <1>10, <1>11 DEF Next, Receiver, Collator, Check

(* The types of what the invariant compares.                                *)
LEMMA TurnsTypes ==
    ASSUME Typed
    PROVE  /\ pc \in [Threads -> Labels] /\ oldest \in [Closers -> 0..Len(raw_data)]
           /\ \A t \in Closers : oldest[t] \in Nat
           /\ popped \in Nat /\ Len(rows) \in Nat /\ rows \in Seq(Row)
           /\ stats["lost"] \in Nat /\ stats["server_client"] \in Nat /\ Popping \in 0..2
<1>1. /\ pc \in [Threads -> Labels] /\ oldest \in [Closers -> 0..Len(raw_data)]
      /\ stats \in [Counters -> Nat]
  BY DEF Typed, TypeOK
<1> QED BY <1>1, TypedQueues DEF Counters, Popping

(* The frame keeps the invariant.                                           *)
LEMMA TurnsFrame ==
    ASSUME Typed, TurnsInv, ClosingFrame
    PROVE  TurnsInv' /\ (TwoVerdicts => TwoVerdicts')
<1>1. \A t \in Closers : /\ Reporting(t)' <=> Reporting(t)
                         /\ Reporting(t) => oldest'[t] = oldest[t]
  BY DEF ClosingFrame, Reporting, Closing, Closers
<1>2. TwoVerdicts' <=> TwoVerdicts
  BY <1>1 DEF TwoVerdicts, ClosingFrame, Closers
<1>3. BalanceInv'
  BY DEF BalanceInv, TurnsInv, ClosingFrame, Closing, Popping, Closers
<1>4. InTurn => InTurn'
  BY DEF InTurn, ClosingFrame, Closers
<1> QED BY <1>2, <1>3, <1>4 DEF TurnsInv

(* A closer decides to report an entry: it is the other's already, or       *)
(* nobody else has it.                                                      *)
LEMMA TurnsJudge ==
    ASSUME Typed, TurnsInv, NEW t \in Closers, Judges(t)
    PROVE  TurnsInv' /\ (TwoVerdicts => TwoVerdicts')
<1>1. /\ pc[t] = "judge" /\ oldest[t] # 0 /\ oldest[t] <= popped + 1
      /\ pc' = [pc EXCEPT ![t] = "forward"]
      /\ UNCHANGED <<oldest, stats, rows, popped>>
  <2>1. pc[t] = "judge" /\ oldest[t] # 0 /\ UNCHANGED <<stats, rows, popped>>
    BY DEF Judges, JudgeEntry, At, listVars
  <2>2. pc' = [pc EXCEPT ![t] = "forward"] /\ UNCHANGED oldest
    BY TurnsTypes DEF Judges, JudgeEntry, Return, Goto, Closers, Threads
  <2> QED BY <2>1, <2>2 DEF TurnsInv, BalanceInv
<1>2. /\ Reporting(t)' /\ ~Reporting(t)
      /\ \A u \in Closers : u # t => pc'[u] = pc[u]
  BY <1>1, TurnsTypes DEF Reporting, Closers, Threads
<1>3. TwoVerdicts => TwoVerdicts'
  BY <1>1, <1>2 DEF TwoVerdicts, Reporting
<1>4. BalanceInv'
  BY <1>1, <1>2, TurnsTypes DEF TurnsInv, BalanceInv, Popping, Closers, Closing, Threads
<1>5. ASSUME InTurn, ~TwoVerdicts' PROVE InTurn'
  <2>1. oldest[t] = popped + 1
    <3> SUFFICES ASSUME oldest[t] # popped + 1 PROVE FALSE
      OBVIOUS
    <3>1. oldest[t] \in 1..Len(rows)
      BY <1>1, TurnsTypes DEF TurnsInv, BalanceInv
    <3>2. rows[oldest[t]].entry = oldest[t]
      BY <1>5, <3>1 DEF InTurn
    <3> QED BY <1>1, <1>2, <1>5, <3>1, <3>2 DEF TwoVerdicts
  <2>2. ASSUME NEW u \in Closers, u # t, pc[u] \in Closing PROVE FALSE
    <3>1. oldest[u] = popped + 1
      BY <1>5, <2>2 DEF InTurn
    <3>2. CASE Reporting(u)
      BY <1>1, <1>2, <1>5, <2>1, <2>2, <3>1, <3>2 DEF TwoVerdicts, Closers, Reporting
    <3>3. CASE pc[u] = "pop"
      <4>1. Len(rows) >= popped + 1
        BY <2>2, <3>3, TurnsTypes DEF TurnsInv, BalanceInv, Popping, Closers
      <4>2. rows[popped + 1].entry = popped + 1 /\ popped + 1 \in 1..Len(rows)
        BY <1>5, <4>1, TurnsTypes DEF InTurn
      <4> QED BY <1>1, <1>2, <1>5, <2>1, <4>2 DEF TwoVerdicts
    <3> QED BY <2>2, <3>2, <3>3 DEF Closing, Reporting
  <2>3. \A u \in Closers : pc'[u] \in Closing => u = t
    BY <1>2, <2>2
  <2> QED BY <1>1, <1>5, <2>1, <2>3 DEF InTurn, Closers
<1> QED BY <1>3, <1>4, <1>5 DEF TurnsInv

(* A counter that is due goes up by one, or stays if the calls overlap.     *)
LEMMA CountedOnce ==
    ASSUME Typed, NEW t \in Closers, NEW S, stats' \in Counted(t, S), NEW c \in Counters
    PROVE  \/ stats'[c] = stats[c] /\ (c \notin S \/ Overlapping(t))
           \/ stats'[c] = stats[c] + 1 /\ c \in S
<1>1. PICK missed : /\ stats' = Count(S \ missed)
                    /\ ~Overlapping(t) => missed = {}
  BY DEF Counted
<1>2. stats'[c] = IF c \in S \ missed THEN stats[c] + 1 ELSE stats[c]
  BY <1>1 DEF Count
<1> QED BY <1>1, <1>2

(* The first half of aggregateRawData is no verdict.                        *)
LEMMA TurnsForward ==
    ASSUME Typed, TurnsInv, NEW t \in Closers, AggregateForward(t)
    PROVE  TurnsInv' /\ (TwoVerdicts => TwoVerdicts')
<1>1. /\ pc[t] = "forward" /\ pc' = [pc EXCEPT ![t] = "aggregate"]
      /\ UNCHANGED <<oldest, rows, popped>>
  BY DEF AggregateForward, At, Goto, listVars
<1>2. stats'["lost"] + stats'["server_client"] = stats["lost"] + stats["server_client"]
  <2>1. PICK S \in SUBSET {"client_server"} : stats' \in Counted(t, S)
    BY DEF AggregateForward
  <2>2. "lost" \in Counters \ S /\ "server_client" \in Counters \ S
    BY DEF Counters
  <2>3. stats'["lost"] = stats["lost"] /\ stats'["server_client"] = stats["server_client"]
    BY <2>1, <2>2, CountedOnce
  <2> QED BY <2>3
<1>3. \A u \in Closers : /\ Reporting(u)' <=> Reporting(u)
                         /\ pc'[u] \in Closing <=> pc[u] \in Closing
                         /\ pc'[u] = "judge" <=> pc[u] = "judge"
                         /\ pc'[u] = "pop" <=> pc[u] = "pop"
  BY <1>1, TurnsTypes DEF Reporting, Closing, Closers, Threads
<1>4. TwoVerdicts' <=> TwoVerdicts
  BY <1>1, <1>3 DEF TwoVerdicts
<1>5. BalanceInv'
  BY <1>1, <1>2, <1>3 DEF TurnsInv, BalanceInv, Popping, Closers
<1>6. InTurn => InTurn'
  BY <1>1, <1>2, <1>3 DEF InTurn
<1> QED BY <1>4, <1>5, <1>6 DEF TurnsInv

(* The verdict.                                                             *)
LEMMA TurnsRest ==
    ASSUME Typed, TurnsInv, NEW t \in Closers, AggregateRest(t)
    PROVE  TurnsInv' /\ (TwoVerdicts => TwoVerdicts')
<1> DEFINE e == raw_data[oldest[t]]
           row == [id |-> e.id, at |-> e.at, entry |-> oldest[t]]
           S == (IF Complete(e.at) THEN {"server_client", "internal"} ELSE {"lost"})
                  \cup (IF Complete(e.at) \/ forward[t] THEN {"RTT"} ELSE {})
<1>1. /\ pc[t] = "aggregate" /\ pc' = [pc EXCEPT ![t] = "pop"]
      /\ UNCHANGED <<oldest, popped>>
      /\ rows' = Append(rows, row) /\ stats' \in Counted(t, S)
  BY DEF AggregateRest, At, Goto, listVars
<1>2. /\ Len(rows') = Len(rows) + 1 /\ rows'[Len(rows) + 1].entry = oldest[t]
      /\ \A i \in 1..Len(rows) : rows'[i] = rows[i]
  <2>1. Len(rows') = Len(rows) + 1 /\ rows' \in Seq(Row)
    BY AggregatedRows
  <2>2. rows'[Len(rows) + 1] = row /\ \A i \in 1..Len(rows) : rows'[i] = rows[i]
    BY <1>1, TurnsTypes
  <2> QED BY <2>1, <2>2
<1>3. /\ "lost" \in Counters /\ "server_client" \in Counters
      /\ "lost" \in S <=> ~Complete(e.at)
      /\ "server_client" \in S <=> Complete(e.at)
  BY DEF Counters
<1> HIDE DEF row, S, e
<1>4. /\ \/ stats'["lost"] = stats["lost"] /\ ("lost" \notin S \/ Overlapping(t))
         \/ stats'["lost"] = stats["lost"] + 1 /\ "lost" \in S
      /\ \/ /\ stats'["server_client"] = stats["server_client"]
            /\ "server_client" \notin S \/ Overlapping(t)
         \/ stats'["server_client"] = stats["server_client"] + 1 /\ "server_client" \in S
  BY <1>1, <1>3, CountedOnce
<1>5. /\ Reporting(t) /\ pc'[t] = "pop" /\ ~Reporting(t)'
      /\ \A u \in Closers : u # t => pc'[u] = pc[u]
  BY <1>1, TurnsTypes DEF Reporting, Closers, Threads
<1>6. Popping' = Popping + 1
  BY <1>1, <1>5, TurnsTypes DEF Popping, Closers
<1>7. BalanceInv'
  <2>1. \A u \in Closers : pc'[u] \in {"judge"} \cup Closing => oldest'[u] <= popped' + 1
    BY <1>1, <1>5 DEF TurnsInv, BalanceInv, Closing
  <2>2. Len(rows') = popped' + Popping'
    BY <1>1, <1>2, <1>6, TurnsTypes DEF TurnsInv, BalanceInv
  <2>3. stats'["lost"] + stats'["server_client"] <= Len(rows')
    BY <1>2, <1>3, <1>4, TurnsTypes DEF TurnsInv, BalanceInv
  <2> QED BY <2>1, <2>2, <2>3 DEF BalanceInv
<1>8. TwoVerdicts => TwoVerdicts'
  <2>1. CASE \E i, j \in 1..Len(rows) : i # j /\ rows[i].entry = rows[j].entry
    BY <1>2, <2>1, TurnsTypes DEF TwoVerdicts
  <2>2. ASSUME NEW u \in Closers, NEW i \in 1..Len(rows), Reporting(u), rows[i].entry = oldest[u]
        PROVE  TwoVerdicts'
    <3>1. i \in 1..Len(rows') /\ Len(rows) + 1 \in 1..Len(rows') /\ i # Len(rows) + 1
      BY <1>2, TurnsTypes
    <3>2. CASE u = t
      BY <1>2, <2>2, <3>1, <3>2 DEF TwoVerdicts
    <3>3. CASE u # t
      BY <1>1, <1>2, <1>5, <2>2, <3>1, <3>3 DEF TwoVerdicts, Reporting
    <3> QED BY <3>2, <3>3
  <2>3. CASE \A u \in Closers : Reporting(u) /\ oldest[u] = oldest["collator"]
    <3>1. PICK u \in Closers : u # t
      BY DEF Closers
    <3>2. Reporting(u)' /\ oldest'[u] = rows'[Len(rows) + 1].entry
      BY <1>1, <1>2, <1>5, <2>3, <3>1 DEF Reporting
    <3> QED BY <1>2, <3>2, TurnsTypes DEF TwoVerdicts
  <2> QED BY <2>1, <2>2, <2>3 DEF TwoVerdicts
<1>9. ASSUME InTurn PROVE InTurn'
  <2>1. /\ oldest[t] = popped + 1
        /\ \A u \in Closers : u # t => pc[u] \notin Closing
    BY <1>1, <1>9 DEF InTurn, Closing, Closers
  <2>2. ~Overlapping(t)
    BY <2>1 DEF Overlapping, Reporting, Closing
  <2>3. Len(rows) = popped
    <3>1. Popping = 0
      BY <1>1, <2>1 DEF Popping, Closing, Closers
    <3> QED BY <3>1, TurnsTypes DEF TurnsInv, BalanceInv
  <2>4. \A i \in 1..Len(rows') : rows'[i].entry = i
    BY <1>2, <1>9, <2>1, <2>3, TurnsTypes DEF InTurn
  <2>5. stats'["lost"] + stats'["server_client"] = Len(rows')
    <3>1. \/ /\ stats'["lost"] = stats["lost"] + 1
             /\ stats'["server_client"] = stats["server_client"]
          \/ /\ stats'["lost"] = stats["lost"]
             /\ stats'["server_client"] = stats["server_client"] + 1
      BY <1>3, <1>4, <2>2
    <3>2. stats["lost"] + stats["server_client"] = Len(rows)
      BY <1>9 DEF InTurn
    <3> QED BY <1>2, <3>1, <3>2, TurnsTypes
  <2>6. \A u \in Closers : pc'[u] \in Closing => u = t /\ oldest'[u] = popped' + 1
    BY <1>1, <1>5, <2>1
  <2> QED BY <2>4, <2>5, <2>6 DEF InTurn, Closers
<1> QED BY <1>7, <1>8, <1>9 DEF TurnsInv

(* The removal.                                                             *)
LEMMA TurnsPop ==
    ASSUME Typed, TurnsInv, NEW t \in Closers, Pop(t)
    PROVE  TurnsInv' /\ (TwoVerdicts => TwoVerdicts')
<1>1. /\ pc[t] = "pop" /\ pc' = [pc EXCEPT ![t] = "loop"]
      /\ oldest' = [oldest EXCEPT ![t] = 0]
      /\ popped' = popped + 1 /\ UNCHANGED <<stats, rows>>
  BY DEF Pop, Return, At, Goto
<1>2. /\ pc'[t] = "loop" /\ ~Reporting(t) /\ ~Reporting(t)'
      /\ \A u \in Closers : u # t => pc'[u] = pc[u] /\ oldest'[u] = oldest[u]
  BY <1>1, TurnsTypes DEF Reporting, Closers, Threads
<1>3. TwoVerdicts => TwoVerdicts'
  BY <1>1, <1>2 DEF TwoVerdicts, Reporting
<1>4. Popping' = Popping - 1
  BY <1>1, <1>2, TurnsTypes DEF Popping, Closers
<1>5. BalanceInv'
  <2>1. \A u \in Closers : pc'[u] \in {"judge"} \cup Closing => oldest'[u] <= popped' + 1
    BY <1>1, <1>2, TurnsTypes DEF TurnsInv, BalanceInv, Closing
  <2> QED BY <1>1, <1>4, <2>1, TurnsTypes DEF TurnsInv, BalanceInv
<1>6. ASSUME InTurn PROVE InTurn'
  <2>1. \A u \in Closers : pc'[u] \notin Closing
    BY <1>1, <1>2, <1>6 DEF InTurn, Closing, Closers
  <2> QED BY <1>1, <1>6, <2>1 DEF InTurn
<1> QED BY <1>3, <1>5, <1>6 DEF TurnsInv

(* Every step keeps the invariant, and two verdicts are never forgotten.    *)
LEMMA TurnsStep ==
    ASSUME Typed, TurnsInv, Next
    PROVE  TurnsInv' /\ (TwoVerdicts => TwoVerdicts')
  BY ClosingFrameSteps, TurnsFrame, TurnsJudge, TurnsForward, TurnsRest, TurnsPop DEF TurnsInv

(* The invariant is inductive.                                              *)
LEMMA TurnsInductive == Spec => []TurnsInv
<1>1. Init => TurnsInv
  BY DEF Init, TurnsInv, BalanceInv, InTurn, TwoVerdicts, Popping, Threads, Closers, Closing,
         Counters
<1>2. Typed /\ TurnsInv /\ Next => TurnsInv'
  BY TurnsStep
<1>3. Typed /\ TurnsInv /\ UNCHANGED vars => TurnsInv'
  <2> SUFFICES ASSUME Typed, TurnsInv, UNCHANGED vars PROVE TurnsInv'
    OBVIOUS
  <2>1. ClosingFrame
    BY DEF ClosingFrame, vars, listVars, closeVars, TurnsInv, BalanceInv
  <2> QED BY <2>1, TurnsFrame
<1>4. Spec => []Typed
  BY TypedCorrect, PTL
<1> QED BY <1>1, <1>2, <1>3, <1>4, PTL DEF Spec

(* Every verdict goes with one removal from raw_data_list, whichever of the *)
(* two threads closes entries and whatever entry it takes, and only an      *)
(* entry with two verdicts makes the unlocked statistics miss one: see      *)
(* VerdictsMatchPops.                                                       *)
THEOREM VerdictAccounting == Spec => []VerdictsMatchPops
<1>1. TurnsInv => VerdictsMatchPops
  BY DEF TurnsInv, BalanceInv, InTurn, VerdictsMatchPops
<1> QED BY <1>1, TurnsInductive, PTL

(* A closer removes the entry it judged, at any speed of the two threads,   *)
(* unless an entry got two verdicts: see PopRemovesJudged.                  *)
THEOREM JudgedIsRemoved == Spec => []PopRemovesJudged
<1>1. TurnsInv => PopRemovesJudged
  BY DEF TurnsInv, InTurn, PopRemovesJudged, Closing
<1> QED BY <1>1, TurnsInductive, PTL
-----------------------------------------------------------------------------
(* While only the collator closes entries, no execution is undefined and    *)
(* nothing is written to a removed entry.                                   *)

ReceiverCloses == pc["receiver"] \in Closing

(* The entry the collator judged is still the front of the list, and the    *)
(* entry it is about to write to is still in the list.                      *)
CloserInv ==
    /\ pc["collator"] = "judge" => oldest["collator"] \in {0, popped + 1}
    /\ pc["collator"] \in Closing => oldest["collator"] = popped + 1
    /\ pc["collator"] \in {"judge"} \cup Closing => oldest["collator"] <= Len(raw_data)
    /\ pc["collator"] = "update" => entry = 0 \/ entry > popped
    /\ ~undefined

(* A step that moves neither the list nor the collator.                     *)
CloserFrame ==
    /\ UNCHANGED <<popped, entry, undefined>>
    /\ pc'["collator"] = pc["collator"] /\ oldest'["collator"] = oldest["collator"]
    /\ Len(raw_data') = Len(raw_data)

(* Such a step keeps the invariant.                                         *)
LEMMA CloserFrameStep ==
    ASSUME CloserInv, CloserFrame
    PROVE  CloserInv'
  BY DEF CloserInv, CloserFrame

(* Every step keeps the invariant unless the receiver closes entries too.   *)
LEMMA CloserStep ==
    ASSUME Typed, CloserInv, ~ReceiverCloses, Next
    PROVE  CloserInv'
<1>1. /\ pc \in [Threads -> Labels] /\ oldest \in [Closers -> 0..Len(raw_data)]
      /\ popped \in 0..Len(raw_data) /\ Len(raw_data) \in Nat /\ entry \in 0..Len(raw_data)
  BY DEF Typed, TypeOK
<1> USE DEF At, Goto, Return, Threads, Closers, senderVars, collatorVars, listVars,
            closeVars, netVars, timeVars, flagVars
<1>2. CASE Sender
  BY <1>1, <1>2, CloserFrameStep
     DEF CloserFrame, Sender, SenderNext, SenderDone, SendOk, SendFail, SenderObserve
<1>3. CASE ReceiverContinue \/ ReceiverStop \/ RecvTimeout \/ Enqueue
  BY <1>1, <1>3, CloserFrameStep
     DEF CloserFrame, ReceiverContinue, ReceiverStop, RecvTimeout, Enqueue
<1>4. ASSUME NEW m \in network, RecvPacket(m) \/ RecvTruncated(m) \/ Lose(m) PROVE CloserInv'
  BY <1>1, <1>4, CloserFrameStep DEF CloserFrame, RecvPacket, RecvTruncated, Lose
<1>5. CASE Check("receiver")
  BY <1>1, <1>5, CloserFrameStep
     DEF CloserFrame, ReceiverCloses, Closing, Check, Peek, JudgeEmpty, JudgeEntry,
         AggregateForward, AggregateRest, Pop, PopEmpty
<1>6. CASE Tick
  BY <1>1, <1>6, TickRawData, CloserFrameStep DEF CloserFrame, Tick
<1>7. CASE Terminating
  BY <1>7, CloserFrameStep DEF CloserFrame, Terminating, vars
<1> USE DEF CloserInv, Closing
<1>8. CASE CollatorStart \/ CollatorLoop \/ CollatorPoll \/ CollatorPopObs
  BY <1>1, <1>8 DEF CollatorStart, CollatorLoop, CollatorPoll, CollatorPopObs
<1>9. CASE CollatorFind
  BY <1>1, <1>9 DEF CollatorFind, Matching, Live
<1>10. CASE CollatorUpdate
  BY <1>1, <1>10 DEF CollatorUpdate
<1>11. CASE Peek("collator")
  BY <1>1, <1>11 DEF Peek, Live
<1>12. CASE JudgeEmpty("collator") \/ JudgeEntry("collator")
  BY <1>1, <1>12 DEF JudgeEmpty, JudgeEntry
<1>13. CASE AggregateForward("collator") \/ AggregateRest("collator")
  BY <1>1, <1>13 DEF AggregateForward, AggregateRest
<1>14. CASE Pop("collator") \/ PopEmpty("collator")
  <2>0. pc["collator"] = "pop"
    BY <1>14 DEF Pop, PopEmpty
  <2>1. popped + 1 \in Live
    BY <1>1, <2>0 DEF Live
  <2>2. Pop("collator")
    BY <1>14, <2>1 DEF PopEmpty
  <2>3. undefined' = FALSE
    BY <2>2 DEF Pop
  <2>4. pc'["collator"] = "loop"
    BY <1>1, <2>2 DEF Pop
  <2> QED BY <2>3, <2>4
<1> QED
  BY <1>2, <1>3, <1>4, <1>5, <1>6, <1>7, <1>8, <1>9, <1>10, <1>11, <1>12, <1>13, <1>14
     DEF Next, Receiver, Collator, Check

(* No step writes to an entry that was removed.                             *)
LEMMA FrozenStep ==
    ASSUME Typed, CloserInv, Next
    PROVE  \A i \in 1..popped : raw_data'[i].at = raw_data[i].at
<1>1. /\ popped \in 0..Len(raw_data) /\ Len(raw_data) \in Nat /\ raw_data \in Seq(RawData)
      /\ tmp_obs \in Observation
  BY DEF Typed, TypeOK
<1>2. CASE UNCHANGED raw_data
  BY <1>2
<1>3. CASE Tick
  BY <1>1, <1>3, TickRawData
<1>4. CASE CollatorUpdate
  <2>1. CASE entry = 0
    BY <1>1, <1>4, <2>1, NewEntryTyped, AppendTyped DEF CollatorUpdate
  <2>2. CASE entry # 0
    <3>1. entry > popped
      BY <1>4, <2>2 DEF CollatorUpdate, CloserInv, At
    <3> QED BY <1>1, <1>4, <2>2, <3>1 DEF CollatorUpdate
  <2> QED BY <2>1, <2>2
<1>5. CASE Sender
  BY <1>2, <1>5 DEF Sender, SenderNext, SenderDone, SendOk, SendFail, SenderObserve, listVars
<1>6. CASE Receiver
  BY <1>2, <1>6 DEF Receiver, ReceiverContinue, ReceiverStop, RecvTimeout, Enqueue, RecvPacket,
     RecvTruncated, Check, Peek, JudgeEmpty, JudgeEntry, AggregateForward, AggregateRest, Pop,
     PopEmpty, listVars
<1>7. CASE Collator
  BY <1>2, <1>4, <1>7 DEF Collator, CollatorStart, CollatorLoop, CollatorPoll, CollatorPopObs,
     CollatorFind, Check, Peek, JudgeEmpty, JudgeEntry, AggregateForward, AggregateRest, Pop,
     PopEmpty, listVars
<1>8. ASSUME NEW m \in network, Lose(m) PROVE UNCHANGED raw_data
  BY <1>8 DEF Lose, listVars
<1>9. CASE Terminating
  BY <1>2, <1>9 DEF Terminating, vars, listVars
<1> QED
  BY <1>2, <1>3, <1>5, <1>6, <1>7, <1>8, <1>9 DEF Next
=============================================================================
