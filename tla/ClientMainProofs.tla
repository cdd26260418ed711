-------------------------- MODULE ClientMainProofs --------------------------
(***************************************************************************)
(* The program is the client that TwampClient describes, started and       *)
(* stopped by main(); and on every path through main() the Client object   *)
(* outlives its threads and the reports are final.                         *)
(***************************************************************************)
EXTENDS ClientMain, ClientClosingProofs

-----------------------------------------------------------------------------
(* The program implements TwampClient                                       *)

(* main() itself touches nothing the threads share.                         *)
LEMMA MainAlone ==
    ASSUME Main \/ Over \/ UNCHANGED allVars
    PROVE  UNCHANGED vars
BY DEF Main, ParseArgs, ParseExits, Construct, ConstructFails, CreateReceiver,
       CreateReceiverFails, CreateSender, CreateSenderFails, Collated, JoinSender, JoinReceiver,
       PrintStats, JsonLog, JsonLogThrows, Destroy, Over, allVars

(* A step of the program is one of TwampClient, or one of main() alone.     *)
LEMMA MainStepMaps == [NextMain]_allVars => [Next]_vars
<1> SUFFICES ASSUME [NextMain]_allVars PROVE [Next]_vars
  OBVIOUS
<1>1. CASE Main \/ Over \/ UNCHANGED allVars
  BY <1>1, MainAlone
<1>2. CASE SenderThread \/ ReceiverThread \/ CollatorCall
  BY <1>2 DEF SenderThread, ReceiverThread, CollatorCall, Runs, Next
<1>3. CASE Environment
  BY <1>3 DEF Environment, Next
<1> QED BY <1>1, <1>2, <1>3 DEF NextMain

(* Creating and joining threads, running the collator on the main thread    *)
(* and exiting early restrict what the three threads of TwampClient may do  *)
(* and add nothing: what is proved of TwampClient holds of the program.     *)
THEOREM ProgramImplementsClient == MainSpec => Spec
<1>1. InitMain => Init
  BY DEF InitMain
<1> QED BY <1>1, MainStepMaps, PTL DEF MainSpec, Spec

(* In every execution of the program the variables keep their types, the    *)
(* collator never pops an empty observation list, verdicts and removals     *)
(* balance, and only an entry with two verdicts makes the statistics miss   *)
(* one or a closer remove an entry it did not judge.                        *)
THEOREM ProgramSafe ==
    MainSpec => [](TypeOK /\ ObservationPopSafe /\ VerdictsMatchPops /\ PopRemovesJudged)
BY ProgramImplementsClient, TypeCorrect, PopSafe, VerdictAccounting, JudgedIsRemoved, PTL

-----------------------------------------------------------------------------
(* main() and the threads                                                   *)

MainLabels == {"parse", "construct", "create_receiver", "create_sender", "collate",
               "join_sender", "join_receiver", "stats", "json", "return", "exit"}
Measured == {"stats", "json", "return"}  \* every thread was joined

(* What main() knows of the threads at each place: which were created, and  *)
(* which are done.  A created thread needs the object.                      *)
ThreadsInv ==
    /\ main \in MainLabels
    /\ main \in {"parse", "construct", "create_receiver"} => created = {}
    /\ main = "create_sender" => created = {"receiver"}
    /\ ~Collate => pc["collator"] = "done"
    /\ main \in {"join_sender", "join_receiver"} \cup Measured => pc["collator"] = "done"
    /\ main \in {"join_receiver"} \cup Measured => pc["sender"] = "done"
    /\ main \in Measured => pc["receiver"] = "done"
    /\ main \notin {"parse", "construct", "exit"} => alive
    /\ main = "exit" /\ exit_status = 0 /\ created # {} => AllDone
    /\ created \subseteq {"sender", "receiver"}
    /\ ObjectOutlivesThreads

(* A thread that is done takes no step, a thread moves no other thread, and *)
(* only the closing threads change the statistics.                          *)
LEMMA SenderAlone ==
    ASSUME Typed, Sender
    PROVE  /\ pc["sender"] # "done"
           /\ pc'["receiver"] = pc["receiver"] /\ pc'["collator"] = pc["collator"]
BY DEF Sender, SenderNext, SenderDone, SendOk, SendFail, SenderObserve, At, Goto, Typed, TypeOK,
       Threads

(* The same for the receiver.                                               *)
LEMMA ReceiverAlone ==
    ASSUME Typed, Receiver
    PROVE  /\ pc["receiver"] # "done"
           /\ pc'["sender"] = pc["sender"] /\ pc'["collator"] = pc["collator"]
<1>1. CASE Check("receiver")
  BY <1>1 DEF Check, Peek, JudgeEmpty, JudgeEntry, AggregateForward, AggregateRest, Pop, PopEmpty,
              Return, At, Goto, Typed, TypeOK, Threads
<1>2. CASE ReceiverContinue \/ ReceiverStop \/ RecvTimeout \/ Enqueue
  BY <1>2 DEF ReceiverContinue, ReceiverStop, RecvTimeout, Enqueue, At, Goto, Typed, TypeOK, Threads
<1>3. ASSUME NEW m \in network, RecvPacket(m) \/ RecvTruncated(m)
      PROVE  /\ pc["receiver"] # "done"
             /\ pc'["sender"] = pc["sender"] /\ pc'["collator"] = pc["collator"]
  BY <1>3 DEF RecvPacket, RecvTruncated, At, Goto, Typed, TypeOK, Threads
<1> QED BY <1>1, <1>2, <1>3 DEF Receiver

(* The same for the collator.                                               *)
LEMMA CollatorAlone ==
    ASSUME Typed, Collator
    PROVE  /\ pc["collator"] # "done"
           /\ pc'["sender"] = pc["sender"] /\ pc'["receiver"] = pc["receiver"]
<1>1. CASE Check("collator")
  BY <1>1 DEF Check, Peek, JudgeEmpty, JudgeEntry, AggregateForward, AggregateRest, Pop, PopEmpty,
              Return, At, Goto, Typed, TypeOK, Threads
<1>2. CASE CollatorStart \/ CollatorLoop \/ CollatorPoll
  BY <1>2 DEF CollatorStart, CollatorLoop, CollatorPoll, At, Goto, Typed, TypeOK, Threads
<1>3. CASE CollatorPopObs \/ CollatorFind \/ CollatorUpdate
  BY <1>3 DEF CollatorPopObs, CollatorFind, CollatorUpdate, At, Goto, Typed, TypeOK, Threads
<1> QED BY <1>1, <1>2, <1>3 DEF Collator

(* The network and the clock move no thread and count nothing.              *)
LEMMA EnvironmentAlone ==
    ASSUME Environment
    PROVE  UNCHANGED <<pc, sent_packets, stats, mainVars>>
BY DEF Environment, Tick, Lose, senderVars, closeVars

(* Every step keeps what main() knows.                                      *)
LEMMA ThreadsStep ==
    ASSUME Typed, ThreadsInv, [NextMain]_allVars
    PROVE  ThreadsInv'
<1> USE DEF ThreadsInv, MainLabels, Measured, AllDone, Threads, ObjectOutlivesThreads
<1>1. CASE Main
  <2>1. UNCHANGED pc
    BY <1>1, MainAlone DEF vars
  <2>2. CASE ParseArgs \/ ParseExits \/ Construct \/ ConstructFails
    BY <2>1, <2>2 DEF ParseArgs, ParseExits, Construct, ConstructFails, AtMain, Exit
  <2>3. CASE CreateReceiver \/ CreateReceiverFails
    BY <2>1, <2>3 DEF CreateReceiver, CreateReceiverFails, AtMain, Exit
  <2>4. CASE CreateSender \/ CreateSenderFails
    BY <2>1, <2>4 DEF CreateSender, CreateSenderFails, AtMain, Exit
  <2>5. CASE Collated \/ JoinSender \/ JoinReceiver
    BY <2>1, <2>5 DEF Collated, JoinSender, JoinReceiver, AtMain
  <2>6. CASE PrintStats \/ JsonLog \/ JsonLogThrows \/ Destroy
    BY <2>1, <2>6 DEF PrintStats, JsonLog, JsonLogThrows, Destroy, AtMain, Exit
  <2> QED BY <1>1, <2>2, <2>3, <2>4, <2>5, <2>6 DEF Main
<1>2. CASE SenderThread
  BY <1>2, SenderAlone DEF SenderThread, Runs, mainVars
<1>3. CASE ReceiverThread
  BY <1>3, ReceiverAlone DEF ReceiverThread, Runs, mainVars
<1>4. CASE CollatorCall
  BY <1>4, CollatorAlone DEF CollatorCall, mainVars
<1>5. CASE Environment
  BY <1>5, EnvironmentAlone DEF mainVars
<1>6. CASE Over \/ UNCHANGED allVars
  BY <1>6 DEF Over, allVars, vars, mainVars
<1> QED BY <1>1, <1>2, <1>3, <1>4, <1>5, <1>6 DEF NextMain

(* The Client object is not destroyed while a thread that uses it runs, on  *)
(* no path through main(): see ObjectOutlivesThreads.                       *)
THEOREM ThreadsEndFirst == MainSpec => []ObjectOutlivesThreads
<1>1. InitMain => ThreadsInv
  BY DEF InitMain, Init, ThreadsInv, MainLabels, Measured, AllDone, ObjectOutlivesThreads, Threads
<1>2. Typed /\ ThreadsInv /\ [NextMain]_allVars => ThreadsInv'
  BY ThreadsStep
<1>3. MainSpec => []Typed
  BY ProgramImplementsClient, TypedCorrect, PTL
<1>4. ThreadsInv => ObjectOutlivesThreads
  BY DEF ThreadsInv
<1> QED BY <1>1, <1>2, <1>3, <1>4, PTL DEF MainSpec

-----------------------------------------------------------------------------
(* The reports                                                              *)

(* What was written is still true: nothing is written before every thread   *)
(* is done.                                                                 *)
PrintedInv ==
    /\ printed \in Seq([sent : Nat, lost : Nat, samples : Nat])
    /\ \A i \in 1..Len(printed) : printed[i] = Totals
    /\ main \notin {"json", "return", "exit"} => Len(printed) = 0
    /\ main \in {"json", "return"} \/ Len(printed) # 0 => AllDone

(* Writing one report.                                                      *)
LEMMA WriteOne ==
    ASSUME Typed, PrintedInv, NEW report, Write(report), UNCHANGED vars
    PROVE  /\ printed' \in Seq([sent : Nat, lost : Nat, samples : Nat])
           /\ \A i \in 1..Len(printed') : printed'[i] = Totals'
<1> DEFINE T == Totals
           R == [sent : Nat, lost : Nat, samples : Nat]
<1>1. T \in R
  BY DEF Typed, TypeOK, Totals, Counters
<1>2. Totals' = T
  BY DEF Totals, vars, senderVars, closeVars
<1>3. /\ printed \in Seq(R)
      /\ \A i \in 1..Len(printed) : printed[i] = T
      /\ printed' = IF report \in Reports THEN Append(printed, T) ELSE printed
  BY DEF PrintedInv, Write
<1> HIDE DEF T, R
<1>4. CASE report \in Reports
  <2>1. /\ printed' \in Seq(R) /\ Len(printed') = Len(printed) + 1 /\ Len(printed) \in Nat
        /\ printed'[Len(printed) + 1] = T
        /\ \A i \in 1..Len(printed) : printed'[i] = printed[i]
    BY <1>1, <1>3, <1>4, AppendTyped
  <2>2. \A i \in 1..Len(printed') : i = Len(printed) + 1 \/ i \in 1..Len(printed)
    BY <2>1
  <2> QED BY <1>2, <1>3, <1>4, <2>1, <2>2 DEF R
<1>5. CASE report \notin Reports
  <2>1. printed' = printed /\ Len(printed) \in Nat
    BY <1>3, <1>5
  <2> QED BY <1>2, <1>3, <1>5, <2>1 DEF R
<1> QED BY <1>4, <1>5

(* Every step keeps it: a thread that could count something is not done.    *)
LEMMA PrintedStep ==
    ASSUME Typed, ThreadsInv, PrintedInv, [NextMain]_allVars
    PROVE  PrintedInv'
<1>1. CASE Main
  <2>1. UNCHANGED vars /\ Totals' = Totals /\ (AllDone' <=> AllDone)
    BY <1>1, MainAlone DEF vars, senderVars, closeVars, Totals, AllDone
  <2> USE DEF PrintedInv
  <2>2. CASE ParseArgs \/ ParseExits \/ Construct \/ ConstructFails
    BY <2>1, <2>2 DEF ParseArgs, ParseExits, Construct, ConstructFails, AtMain, Exit, ThreadsInv
  <2>3. CASE CreateReceiver \/ CreateReceiverFails
    BY <2>1, <2>3 DEF CreateReceiver, CreateReceiverFails, AtMain, Exit, ThreadsInv
  <2>4. CASE CreateSender \/ CreateSenderFails
    BY <2>1, <2>4 DEF CreateSender, CreateSenderFails, AtMain, Exit
  <2>5. CASE Collated \/ JoinSender \/ JoinReceiver
    BY <2>1, <2>5 DEF Collated, JoinSender, JoinReceiver, AtMain
  <2>6. CASE PrintStats
    <3>1. AllDone
      BY <2>6 DEF PrintStats, AtMain, ThreadsInv, Measured, AllDone, Threads
    <3>2. Write("stats") /\ main = "stats" /\ main' = "json" /\ Len(printed) = 0
      BY <2>6 DEF PrintStats, AtMain
    <3> QED BY <2>1, <3>1, <3>2, WriteOne
  <2>7. CASE JsonLog
    <3>1. AllDone /\ main' = "return"
      BY <2>7 DEF JsonLog, AtMain
    <3>2. CASE Write("json")
      BY <2>1, <3>1, <3>2, WriteOne
    <3>3. CASE UNCHANGED printed
      BY <2>1, <3>1, <3>3
    <3> QED BY <2>7, <3>2, <3>3 DEF JsonLog
  <2>8. CASE JsonLogThrows \/ Destroy
    BY <2>1, <2>8 DEF JsonLogThrows, Destroy, AtMain, Exit
  <2> QED BY <1>1, <2>2, <2>3, <2>4, <2>5, <2>6, <2>7, <2>8 DEF Main
<1>2. CASE SenderThread \/ ReceiverThread \/ CollatorCall
  <2>1. UNCHANGED mainVars /\ ~AllDone
    BY <1>2, SenderAlone, ReceiverAlone, CollatorAlone
       DEF SenderThread, ReceiverThread, CollatorCall, Runs, AllDone, Threads
  <2>2. main # "exit" /\ main \notin {"json", "return"} /\ Len(printed) = 0
    BY <1>2, <2>1 DEF PrintedInv, SenderThread, ReceiverThread, CollatorCall, Runs
  <2> QED BY <2>1, <2>2 DEF PrintedInv, mainVars
<1>3. CASE Environment
  <2>1. Totals' = Totals /\ (AllDone' <=> AllDone) /\ UNCHANGED mainVars
    BY <1>3, EnvironmentAlone DEF Totals, AllDone
  <2> QED BY <2>1 DEF PrintedInv, mainVars
<1>4. CASE Over \/ UNCHANGED allVars
  <2>1. Totals' = Totals /\ (AllDone' <=> AllDone) /\ UNCHANGED mainVars
    BY <1>4 DEF Over, allVars, vars, senderVars, closeVars, Totals, AllDone
  <2> QED BY <2>1 DEF PrintedInv, mainVars
<1> QED BY <1>1, <1>2, <1>3, <1>4 DEF NextMain

(* No thread counts a packet, a sample or a loss after a report was         *)
(* written, and both reports agree: see ReportsAreFinal.                    *)
THEOREM FinalReports == MainSpec => []ReportsAreFinal
<1>1. InitMain => ThreadsInv /\ PrintedInv
  BY DEF InitMain, Init, ThreadsInv, MainLabels, Measured, AllDone, ObjectOutlivesThreads, Threads,
         PrintedInv
<1>2. Typed /\ ThreadsInv /\ PrintedInv /\ [NextMain]_allVars => (ThreadsInv /\ PrintedInv)'
  BY ThreadsStep, PrintedStep
<1>3. MainSpec => []Typed
  BY ProgramImplementsClient, TypedCorrect, PTL
<1>4. PrintedInv => ReportsAreFinal
  BY DEF PrintedInv, ReportsAreFinal
<1> QED BY <1>1, <1>2, <1>3, <1>4, PTL DEF MainSpec
=============================================================================
