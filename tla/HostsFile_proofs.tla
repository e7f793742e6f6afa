-------------------------- MODULE HostsFile_proofs --------------------------
(***************************************************************************)
(* The invariants of HostsFile for any number of runs of the process and   *)
(* of clients that ask at the same time.  They need to know which thread   *)
(* may touch the file when: main is done with it before the HTTP thread    *)
(* exists, and the console handler only empties it.                        *)
(***************************************************************************)
EXTENDS HostsFile, TLAPS

\* The HTTP thread exists only once main is done with the file.
MainBeforeHttp == http # "off" => main = "poll"

\* While getMeta is at work the request it answers is still counted.
RequestPending ==
    http \in {"clear", "request", "asking", "self", "patch", "write"} => waiting > 0

\* getMeta resolves the name through the file it has emptied.
EmptiedForRequest == http = "request" /\ ~failed => hosts # "patched"

\* setgtserver is done: the file is patched.
PatchedBeforeStart ==
    main = "start" /\ handler = "none" /\ ~failed => hosts = "patched"

HostsInv ==
    /\ TypeOK
    /\ MainBeforeHttp
    /\ RequestPending
    /\ EmptiedForRequest
    /\ PatchedBeforeStart
    /\ NoSelfRequest
    /\ ServedPatched

\* The process starts with nothing done: no thread but main, no request.
LEMMA InitHosts == Init => HostsInv
<1>1. Init => FlagTypes
  BY Zenon DEF Init, FlagTypes
<1> QED
  BY <1>1, HostsAssumption
     DEF HostsAssumption, Init, HostsInv, TypeOK, MainBeforeHttp, RequestPending,
         EmptiedForRequest, PatchedBeforeStart, NoSelfRequest, ServedPatched

\* A step sets the two flags to truth values.
LEMMA FlagStep == FlagTypes /\ [Next]_vars => FlagTypes'
<1> SUFFICES ASSUME FlagTypes, [Next]_vars PROVE FlagTypes'
  OBVIOUS
<1> USE DEF FlagTypes, ProcessUnchanged, Clear, OpenTruncates, OpenFails
<1>1. CASE UNCHANGED vars
  BY <1>1, Zenon DEF vars
<1>2. CASE MainClear \/ MainRequest \/ MainPatch \/ MainWrite \/ MainStart
  BY <1>2, Zenon DEF MainClear, MainRequest, MainPatch, MainWrite, MainStart
<1>3. CASE HttpServe \/ HttpClear \/ HttpRequest \/ HttpResponse \/ HttpThrow
  BY <1>3, Zenon DEF HttpServe, HttpClear, HttpRequest, HttpResponse, HttpThrow
<1>4. CASE HttpPatch \/ HttpWrite
  BY <1>4, Zenon DEF HttpPatch, HttpWrite
<1>5. CASE CtrlEvent \/ HandlerRoutine \/ ExitProcess
  BY <1>5, Zenon DEF CtrlEvent, HandlerRoutine, ExitProcess
<1>6. CASE ClientRequest \/ Kill \/ Restart
  BY <1>6, Zenon DEF ClientRequest, Kill, Restart
<1> QED
  BY <1>1, <1>2, <1>3, <1>4, <1>5, <1>6 DEF Next

\* A step of any thread, or of the environment, keeps the types.
LEMMA TypeStep == HostsInv /\ [Next]_vars => TypeOK'
<1> SUFFICES ASSUME HostsInv, [Next]_vars PROVE TypeOK'
  OBVIOUS
<1>0. FlagTypes'
  BY FlagStep DEF HostsInv, TypeOK
<1> USE HostsAssumption
        DEF HostsAssumption, HostsInv, TypeOK, RequestPending, ProcessUnchanged,
            Clear, OpenTruncates, OpenFails, threads
<1>1. CASE UNCHANGED vars
  BY <1>0, <1>1 DEF vars
<1>2. CASE MainClear \/ MainRequest \/ MainPatch \/ MainWrite \/ MainStart
  BY <1>0, <1>2 DEF MainClear, MainRequest, MainPatch, MainWrite, MainStart
<1>3. CASE HttpServe \/ HttpClear \/ HttpRequest \/ HttpResponse \/ HttpThrow
  BY <1>0, <1>3 DEF HttpServe, HttpClear, HttpRequest, HttpResponse, HttpThrow
<1>4. CASE HttpPatch \/ HttpWrite
  BY <1>0, <1>4 DEF HttpPatch, HttpWrite
<1>5. CASE CtrlEvent \/ HandlerRoutine \/ ExitProcess
  BY <1>0, <1>5 DEF CtrlEvent, HandlerRoutine, ExitProcess
<1>6. CASE ClientRequest \/ Kill \/ Restart
  BY <1>0, <1>6 DEF ClientRequest, Kill, Restart
<1> QED
  BY <1>1, <1>2, <1>3, <1>4, <1>5, <1>6 DEF Next

\* A step keeps what relates the file to the program counters: the HTTP
\* thread alone writes the redirection once it exists.
LEMMA FileStep ==
    HostsInv /\ [Next]_vars =>
        (MainBeforeHttp /\ RequestPending /\ EmptiedForRequest
          /\ PatchedBeforeStart /\ NoSelfRequest /\ ServedPatched)'
<1> SUFFICES ASSUME HostsInv, [Next]_vars
             PROVE  (MainBeforeHttp /\ RequestPending /\ EmptiedForRequest
                      /\ PatchedBeforeStart /\ NoSelfRequest /\ ServedPatched)'
  OBVIOUS
<1> USE DEF HostsInv, TypeOK, MainBeforeHttp, RequestPending, EmptiedForRequest,
            PatchedBeforeStart, NoSelfRequest, ServedPatched, ProcessUnchanged,
            Clear, OpenTruncates, OpenFails, threads
<1>1. CASE UNCHANGED vars
  BY <1>1 DEF vars
<1>2. CASE MainClear \/ MainRequest \/ MainPatch
  BY <1>2 DEF MainClear, MainRequest, MainPatch
<1>3. CASE MainWrite \/ MainStart
  BY <1>3 DEF MainWrite, MainStart
<1>4. CASE HttpServe \/ HttpClear \/ HttpRequest
  BY <1>4 DEF HttpServe, HttpClear, HttpRequest
<1>5. CASE HttpResponse \/ HttpThrow \/ HttpPatch \/ HttpWrite
  BY <1>5 DEF HttpResponse, HttpThrow, HttpPatch, HttpWrite
<1>6. CASE CtrlEvent \/ HandlerRoutine \/ ExitProcess
  BY <1>6 DEF CtrlEvent, HandlerRoutine, ExitProcess
<1>7. CASE ClientRequest \/ Kill \/ Restart
  BY <1>7 DEF ClientRequest, Kill, Restart
<1> QED
  BY <1>1, <1>2, <1>3, <1>4, <1>5, <1>6, <1>7 DEF Next

\* The inductive invariant holds in every state.
THEOREM HostsInvariant == Spec => []HostsInv
<1>1. HostsInv /\ [Next]_vars => HostsInv'
  BY TypeStep, FileStep DEF HostsInv
<1> QED
  BY InitHosts, <1>1, PTL DEF Spec

\* getMeta asks the game, never the proxy itself, while the file can be opened.
THEOREM HostsNoSelfRequest == Spec => []NoSelfRequest
<1>1. HostsInv => NoSelfRequest
  BY DEF HostsInv
<1> QED
  BY HostsInvariant, <1>1, PTL

\* Between requests the file leads clients to the proxy.
THEOREM HostsServedPatched == Spec => []ServedPatched
<1>1. HostsInv => ServedPatched
  BY DEF HostsInv
<1> QED
  BY HostsInvariant, <1>1, PTL
=============================================================================
