---------------------------- MODULE NodeBridge -----------------------------
(***************************************************************************)
(* The parity suite (test/baileys_ex/parity) and its bridge to Node         *)
(* (test/support/parity/node_bridge.ex).  Test cases of several modules run *)
(* at once in one VM; each calls the function of the program, writes a      *)
(* request to a file of its own, has the reference runner answer it in a    *)
(* process of its own, and compares.  What is asked and answered is left to *)
(* the suite (ParitySuite).                                                 *)
(***************************************************************************)
EXTENDS Naturals, Functions

CONSTANTS
    Tests,              \* the test modules that run at once
    MaxCalls,           \* bound: the calls of the bridge in one run of the suite
    CasesFor(_),        \* the cases a test may have
    RequestOf(_),       \* what a case asks of the runner
    RunnerResponse(_)   \* what the runner makes of a request

ASSUME BridgeAssumption == MaxCalls \in Nat

VARIABLES
    phase,      \* what each test does
    case,       \* its case: operation, input of the runner, what the program gave
    path,       \* its payload file
    request,    \* what its runner has read, once it has
    exit,       \* what its runner wrote and exited with, once it has
    result,     \* what run/2 returned
    files,      \* the payload files there are: a function from names to requests
    unique      \* System.unique_integer of the VM

bridgeVars == <<phase, case, path, request, exit, result, files, unique>>

Nil == <<"nil">>
Running == [ok |-> FALSE, status |-> 0]     \* a runner that has not exited

-----------------------------------------------------------------------------
(* The bridge. *)

\* JSON.encode! of what run/2 is called with.
Payload(t) == RequestOf(case[t])

\* The payload file of a call, which takes System.unique_integer's next value.
PayloadPathShared(n) == 1

PayloadPath(n) == n

BridgeInit ==
    /\ phase = [t \in Tests |-> "ready"]
    /\ case = [t \in Tests |-> Nil]
    /\ path = [t \in Tests |-> 0]
    /\ request = [t \in Tests |-> Nil]
    /\ exit = [t \in Tests |-> Running]
    /\ result = [t \in Tests |-> Nil]
    /\ files = [p \in {} |-> {}]
    /\ unique = 0

\* A test has called the program and calls the bridge, which finds its files.
Call(t) ==
    /\ phase[t] = "ready"
    /\ unique < MaxCalls
    /\ \E c \in CasesFor(t) : case' = [case EXCEPT ![t] = c]
    /\ unique' = unique + 1
    /\ path' = [path EXCEPT ![t] = PayloadPath(unique + 1)]
    /\ phase' = [phase EXCEPT ![t] = "write"]
    /\ result' = [result EXCEPT ![t] = Nil]
    /\ UNCHANGED <<request, exit, files>>

\* File.write!, then System.cmd starts the runner.
Write(t) ==
    /\ phase[t] = "write"
    /\ files' = [p \in DOMAIN files \union {path[t]} |->
                     IF p = path[t] THEN Payload(t) ELSE files[p]]
    /\ phase' = [phase EXCEPT ![t] = "wait"]
    /\ UNCHANGED <<case, path, request, exit, result, unique>>

\* The runner reads its payload, readFile of readPayload.
RunnerRead(t) ==
    /\ phase[t] = "wait"
    /\ request[t] = Nil
    /\ exit[t] = Running
    /\ IF path[t] \in DOMAIN files
       THEN /\ request' = [request EXCEPT ![t] = files[path[t]]]
            /\ UNCHANGED exit
       ELSE /\ exit' = [exit EXCEPT ![t] = [ok |-> FALSE, status |-> 1]]
            /\ UNCHANGED request
    /\ UNCHANGED <<phase, case, path, result, files, unique>>

RunnerReply(t) ==
    /\ phase[t] = "wait"
    /\ request[t] # Nil
    /\ exit[t] = Running
    /\ exit' = [exit EXCEPT ![t] = RunnerResponse(request[t])]
    /\ UNCHANGED <<phase, case, path, request, result, files, unique>>

\* The runner ends before it has written anything.
RunnerDies(t) ==
    /\ phase[t] = "wait"
    /\ exit[t] = Running
    /\ exit' = [exit EXCEPT ![t] = [ok |-> FALSE, status |-> 137]]
    /\ UNCHANGED <<phase, case, path, request, result, files, unique>>

\* The payload is removed whatever System.cmd returns.
LeftFiles(t) == DOMAIN files \ {path[t]}

\* System.cmd returns, the payload is removed, the output decoded: only an
\* exit with 0 is looked at as an answer.
Return(t) ==
    /\ phase[t] = "wait"
    /\ exit[t] # Running
    /\ result' = [result EXCEPT ![t] =
           IF exit[t].status = 0 /\ exit[t].ok THEN <<"ok", exit[t].result>>
           ELSE <<"error", "runner_exit", exit[t].status>>]
    /\ files' = Restrict(files, LeftFiles(t))
    /\ request' = [request EXCEPT ![t] = Nil]
    /\ exit' = [exit EXCEPT ![t] = Running]
    /\ phase' = [phase EXCEPT ![t] = "ready"]
    /\ UNCHANGED <<case, path, unique>>

BridgeStep(t) ==
    \/ Call(t)
    \/ Write(t)
    \/ RunnerRead(t)
    \/ RunnerReply(t)
    \/ RunnerDies(t)
    \/ Return(t)

BridgeNext == \E t \in Tests : BridgeStep(t)

BridgeSpec == BridgeInit /\ [][BridgeNext]_bridgeVars

BridgeTypeOK ==
    /\ phase \in [Tests -> {"ready", "write", "wait"}]
    /\ unique \in 0..MaxCalls
    /\ path \in [Tests -> 0..MaxCalls]
    /\ DOMAIN files \subseteq 1..MaxCalls
    /\ \A t, u \in Tests : path[t] = path[u] => t = u \/ path[t] = 0

-----------------------------------------------------------------------------
Returned(t) == phase[t] = "ready" /\ result[t] # Nil

(* Whatever the tests do at once, the bridge gives a test the answer to its *)
(* own request, and an error where the runner threw: never the answer to    *)
(* another test's request.                                                  *)
AnswersOwnRequest ==
    /\ BridgeTypeOK
    /\ \A t \in Tests : Returned(t) /\ result[t][1] = "ok" =>
          /\ RunnerResponse(Payload(t)).ok
          /\ result[t][2] = RunnerResponse(Payload(t)).result

(* A payload is there only while its call runs.                             *)
NoPayloadLeft ==
    \A p \in DOMAIN files : \E t \in Tests : phase[t] = "wait" /\ path[t] = p
=============================================================================
