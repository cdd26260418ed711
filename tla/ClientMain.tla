----------------------------- MODULE ClientMain -----------------------------
(***************************************************************************)
(* The client program (src/src/client/main_client.cpp, and the constructor *)
(* and destructor of Client): main() parses its arguments, builds the      *)
(* Client object, starts the receiver and then the sender on it, runs the  *)
(* collator itself, joins the threads in the other order, writes the       *)
(* reports and destroys the object.  A thread takes the steps TwampClient  *)
(* gives it once it has been created, and none after the process has ended.*)
(***************************************************************************)
EXTENDS TwampClient

CONSTANT Reports  \* what is written at the end: "stats" (print_digest), "json"

ASSUME ReportsAssumption == Reports \subseteq {"stats", "json"}

VARIABLES
    main,        \* where main() is
    created,     \* the threads that were started
    alive,       \* the Client object exists
    printed,     \* the totals in the reports written
    exit_status  \* of the process, once main = "exit"; 134 is SIGABRT

mainVars == <<main, created, alive, printed, exit_status>>

InitMain ==
    /\ Init
    /\ main = "parse" /\ created = {} /\ alive = FALSE
    /\ printed = <<>> /\ exit_status = 0

AtMain(label) == ~undefined /\ main = label
Exit(status) == main' = "exit" /\ exit_status' = status

-----------------------------------------------------------------------------
(* main()                                                                   *)

ParseArgs ==
    /\ AtMain("parse")
    /\ main' = "construct"
    /\ UNCHANGED <<vars, created, alive, printed, exit_status>>

(* The exit codes of the argument parser's errors.                          *)
ParseErrors == 100..127

(* A parse error, the help or the version was asked for, or there is no     *)
(* address: the last three are a success.                                   *)
ParseExits ==
    /\ AtMain("parse")
    /\ \E status \in {0, 1} \cup ParseErrors : Exit(status)
    /\ UNCHANGED <<vars, created, alive, printed>>

Construct ==
    /\ AtMain("construct")
    /\ alive' = TRUE
    /\ main' = "create_receiver"
    /\ UNCHANGED <<vars, created, printed, exit_status>>

(* std::exit for an address that cannot be used, an exception that main()   *)
(* catches if there is no socket, port or memory.                           *)
ConstructFails ==
    /\ AtMain("construct")
    /\ Exit(1)
    /\ UNCHANGED <<vars, created, alive, printed>>

CreateReceiver ==
    /\ AtMain("create_receiver")
    /\ created' = created \cup {"receiver"}
    /\ main' = "create_sender"
    /\ UNCHANGED <<vars, alive, printed, exit_status>>

(* std::system_error: the object is destroyed and main() returns a failure. *)
CreateReceiverFails ==
    /\ AtMain("create_receiver")
    /\ alive' = FALSE
    /\ Exit(1)
    /\ UNCHANGED <<vars, created, printed>>

(* The second thread; then printHeader, and the collator if there is one.   *)
CreateSender ==
    /\ AtMain("create_sender")
    /\ created' = created \cup {"sender"}
    /\ main' = IF Collate THEN "collate" ELSE "join_sender"
    /\ UNCHANGED <<vars, alive, printed, exit_status>>

(* Mutant of CreateSenderFails: the receiver is detached.                   *)
CreateSenderFailsDetached ==
    /\ AtMain("create_sender")
    /\ alive' = FALSE
    /\ Exit(1)
    /\ UNCHANGED <<vars, created, printed>>

(* The exception reaches the destructor of receiver_thread, which is        *)
(* joinable: std::terminate, before the object is destroyed.                *)
CreateSenderFails ==
    /\ AtMain("create_sender")
    /\ Exit(134)
    /\ UNCHANGED <<vars, created, alive, printed>>

Collated ==
    /\ AtMain("collate") /\ pc["collator"] = "done"
    /\ main' = "join_sender"
    /\ UNCHANGED <<vars, created, alive, printed, exit_status>>

JoinSender ==
    /\ AtMain("join_sender") /\ pc["sender"] = "done"
    /\ main' = "join_receiver"
    /\ UNCHANGED <<vars, created, alive, printed, exit_status>>

(* Mutant of JoinReceiver: the reports do not wait for the receiver.        *)
JoinReceiverNot ==
    /\ AtMain("join_receiver")
    /\ main' = "stats"
    /\ UNCHANGED <<vars, created, alive, printed, exit_status>>

JoinReceiver ==
    /\ AtMain("join_receiver") /\ pc["receiver"] = "done"
    /\ main' = "stats"
    /\ UNCHANGED <<vars, created, alive, printed, exit_status>>

(* The counters the two reports show.                                       *)
Totals == [sent |-> sent_packets, lost |-> stats["lost"], samples |-> stats["RTT"]]
Write(report) == printed' = IF report \in Reports THEN Append(printed, Totals) ELSE printed

PrintStats ==
    /\ AtMain("stats")
    /\ Write("stats")
    /\ main' = "json"
    /\ UNCHANGED <<vars, created, alive, exit_status>>

(* A file that cannot be opened or written is not noticed.                  *)
JsonLog ==
    /\ AtMain("json")
    /\ Write("json") \/ UNCHANGED printed
    /\ main' = "return"
    /\ UNCHANGED <<vars, created, alive, exit_status>>

(* An exception on the way to the file: the object is destroyed and main()  *)
(* returns a failure.                                                       *)
JsonLogThrows ==
    /\ AtMain("json")
    /\ "json" \in Reports
    /\ alive' = FALSE
    /\ Exit(1)
    /\ UNCHANGED <<vars, created, printed>>

(* return 0 and ~Client().                                                  *)
Destroy ==
    /\ AtMain("return")
    /\ alive' = FALSE
    /\ Exit(0)
    /\ UNCHANGED <<vars, created, printed>>

Main == \/ ParseArgs \/ ParseExits \/ Construct \/ ConstructFails
        \/ CreateReceiver \/ CreateReceiverFails \/ CreateSender \/ CreateSenderFails
        \/ Collated \/ JoinSender \/ JoinReceiver
        \/ PrintStats \/ JsonLog \/ JsonLogThrows \/ Destroy

-----------------------------------------------------------------------------
(* The threads, the network and the clock: steps of TwampClient             *)

Runs(t, Step) == main # "exit" /\ t \in created /\ Step /\ UNCHANGED mainVars
SenderThread == Runs("sender", Sender)
ReceiverThread == Runs("receiver", Receiver)
CollatorCall == main = "collate" /\ Collator /\ UNCHANGED mainVars
Environment ==
    /\ main \notin {"parse", "exit"}
    /\ Tick \/ \E m \in network : Lose(m)
    /\ UNCHANGED mainVars

Over == (main = "exit" \/ undefined) /\ UNCHANGED <<vars, mainVars>>

NextMain == Main \/ SenderThread \/ ReceiverThread \/ CollatorCall \/ Environment \/ Over

allVars == <<vars, mainVars>>
MainSpec == InitMain /\ [][NextMain]_allVars

(* Each thread of the process runs whenever it can, the collator as a part  *)
(* of the main thread, and time passes.                                     *)
FairMainSpec ==
    /\ MainSpec
    /\ WF_allVars(Main \/ CollatorCall)
    /\ WF_allVars(SenderThread) /\ WF_allVars(ReceiverThread)
    /\ WF_allVars(main # "exit" /\ Tick /\ UNCHANGED mainVars)

-----------------------------------------------------------------------------
(* Properties                                                               *)

(* The threads use members of the Client object, which main() owns: it is   *)
(* not destroyed while one of them runs, on no path through main().         *)
ObjectOutlivesThreads == ~alive => \A t \in created : pc[t] = "done"

(* A report is final: no thread counts a packet, a sample or a loss after   *)
(* it was written, and both reports show the same.                          *)
ReportsAreFinal == \A i \in 1..Len(printed) : printed[i] = Totals

(* The program ends on every path, whatever the network loses: main() waits *)
(* for the collator, the sender and the receiver, each of which ends on     *)
(* what another one did.                                                    *)
ProgramEnds == <>(main = "exit" \/ undefined)
=============================================================================
