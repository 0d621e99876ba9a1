---------------------------- MODULE CallContract ----------------------------
(***************************************************************************)
(* What the Core service promises the client of a call, without threads,   *)
(* child processes or storage: an accepted call is answered once and then  *)
(* closed, unless it breaks (the client gave up, or the container was      *)
(* restarted), and a broken call is never answered afterwards.             *)
(***************************************************************************)
CONSTANT Calls

VARIABLES
    status,     \* status[c]: "idle", "open", "closed" or "broken"
    answer      \* answer[c]: "none", "success" or "failure"

Init ==
    /\ status = [c \in Calls |-> "idle"]
    /\ answer = [c \in Calls |-> "none"]

Accept(c) ==
    /\ status[c] = "idle"
    /\ status' = [status EXCEPT ![c] = "open"]
    /\ UNCHANGED answer

Reply(c) ==
    /\ status[c] = "open" /\ answer[c] = "none"
    /\ \E outcome \in {"success", "failure"} :
         answer' = [answer EXCEPT ![c] = outcome]
    /\ status' \in {status, [status EXCEPT ![c] = "closed"]}

Close(c) ==
    /\ status[c] = "open" /\ answer[c] # "none"
    /\ status' = [status EXCEPT ![c] = "closed"]
    /\ UNCHANGED answer

\* One client gives up, or every open call is cut off at once.
Break ==
    /\ \E cut \in SUBSET {c \in Calls : status[c] = "open"} :
         status' = [c \in Calls |-> IF c \in cut THEN "broken" ELSE status[c]]
    /\ UNCHANGED answer

Next == Break \/ \E c \in Calls : Accept(c) \/ Reply(c) \/ Close(c)

Contract == Init /\ [][Next]_<<status, answer>>

Fairness == \A c \in Calls : WF_<<status, answer>>(Reply(c) \/ Close(c))

FairContract == Contract /\ Fairness
=============================================================================
