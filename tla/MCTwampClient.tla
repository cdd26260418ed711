--------------------------- MODULE MCTwampClient ---------------------------
(***************************************************************************)
(* Statements about the client that its comments, its help texts and its   *)
(* tests make, written as properties of TwampClient.  TLC refutes each of  *)
(* them in a run of its own, on the smallest instance that does.           *)
(***************************************************************************)
EXTENDS TwampClient

(* Client.cpp, check_if_oldest_packet_should_be_processed, where it sets    *)
(* collator_finished: "All the packets have been sent and all the responses *)
(* have been received or timed out".  A packet whose CLIENT_SEND            *)
(* observation was not even read has neither a response nor a timeout.      *)
FinishedMeansResolved ==
    collator_finished =>
        \A i \in 1..Len(observation_list) : observation_list[i].point # "CLIENT_SEND"

(* Client.cpp, at popObservation() in the same function: "Remove the oldest *)
(* entry from the raw_data list", the entry that was aggregated just above. *)
RemovesTheAggregatedEntry == \A t \in Closers : pc[t] = "pop" => oldest[t] = popped + 1

(* Help text of --timeout: "How long (in seconds) to wait for response on   *)
(* each packet before concluding the packet is lost".  A packet that got a  *)
(* complete row was answered in time, and is not concluded to be lost.      *)
AnsweredIsNotLost ==
    \A i, j \in 1..Len(rows) :
        rows[i].id = rows[j].id /\ Complete(rows[i].at) => Complete(rows[j].at)

(* Help text of --runtime: "The total runtime [...] is limited to the sum   *)
(* of the runtime and timeout parameters": the client ends at all.          *)
RuntimeLimited == <>AllDone
=============================================================================
