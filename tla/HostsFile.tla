----------------------------- MODULE HostsFile -----------------------------
(***************************************************************************)
(* The hosts file of the machine, through which the proxy makes the game   *)
(* client ask it for server_data.php, and the three threads of the process *)
(* that rewrite it: main (setgtserver of proxy/proxy.cpp), the HTTP thread *)
(* (getMeta of proxy/http.cpp, once for every server_data request) and the *)
(* console handler (HandlerRoutine of proxy/proxy.cpp).  No lock orders    *)
(* them.  The file outlives the process, which may be killed and started   *)
(* again.                                                                  *)
(***************************************************************************)
EXTENDS Naturals

CONSTANTS MaxRuns,     \* bound: times the process is started
          MaxRequests  \* bound: requests that wait for the HTTP thread

ASSUME HostsAssumption == MaxRuns \in Nat /\ MaxRequests \in Nat

VARIABLES
    hosts,    \* the file: what the user wrote, nothing, or the proxy's redirection
    up,       \* the process runs
    ended,    \* history: how the last run of the process ended
    main,     \* program counter of main
    http,     \* program counter of the HTTP thread
    handler,  \* program counter of the console handler
    waiting,  \* server_data requests not answered yet
    failed,   \* history: some attempt of this run to open the file failed
    runs

vars == <<hosts, up, ended, main, http, handler, waiting, failed, runs>>
threads == <<main, http, handler>>

FlagTypes == up \in BOOLEAN /\ failed \in BOOLEAN

\* Types of the variables: in particular no request is answered twice.
TypeOK ==
    /\ FlagTypes
    /\ hosts \in {"user", "empty", "patched"}
    /\ ended \in {"not", "handler", "killed", "terminated"}
    /\ main \in {"clear", "request", "patch", "write", "start", "poll"}
    /\ http \in {"off", "idle", "clear", "request", "asking", "self", "patch", "write"}
    /\ handler \in {"none", "clear", "exit"}
    /\ waiting \in 0..MaxRequests
    /\ runs \in Nat

Init ==
    /\ hosts = "user"
    /\ up = TRUE /\ ended = "not"
    /\ main = "clear" /\ http = "off" /\ handler = "none"
    /\ waiting = 0 /\ failed = FALSE /\ runs = 1

-----------------------------------------------------------------------------
\* std::ofstream on the file: opening it truncates it; a failure to open is
\* found by is_open and nothing is written.
OpenTruncates == hosts' = "empty" /\ UNCHANGED failed
OpenFails     == failed' = TRUE /\ UNCHANGED hosts
Clear         == OpenTruncates \/ OpenFails

\* The console handler is installed before setgtserver runs.
ProcessUnchanged == up /\ UNCHANGED <<up, ended, runs>>

-----------------------------------------------------------------------------
\* main: setgtserver, then the HTTP thread is started and poll() runs.

\* The first block of setgtserver.
MainClear ==
    /\ ProcessUnchanged
    /\ main = "clear"
    /\ Clear
    /\ main' = "request"
    /\ UNCHANGED <<http, handler, waiting>>

\* The request to the game's web server, by a name the file does not redirect:
\* an answer, or an exception that is caught.
MainRequest ==
    /\ ProcessUnchanged
    /\ main = "request"
    /\ main' = "patch"
    /\ UNCHANGED <<hosts, http, handler, waiting, failed>>

\* The last block: the file is opened (and emptied), written when it is closed.
MainPatch ==
    /\ ProcessUnchanged
    /\ main = "patch"
    /\ \/ OpenTruncates /\ main' = "write"
       \/ OpenFails /\ main' = "start"
    /\ UNCHANGED <<http, handler, waiting>>

MainWrite ==
    /\ ProcessUnchanged
    /\ main = "write"
    /\ hosts' = "patched"
    /\ main' = "start"
    /\ UNCHANGED <<http, handler, waiting, failed>>

\* Faulty start: the HTTP thread runs before setgtserver is done.
MainStart_Early ==
    /\ ProcessUnchanged
    /\ http = "off"
    /\ http' = "idle"
    /\ UNCHANGED <<hosts, main, handler, waiting, failed>>

\* The HTTP thread is started and detached; main enters its poll loop.
MainStart ==
    /\ ProcessUnchanged
    /\ main = "start"
    /\ main' = "poll"
    /\ http' = "idle"
    /\ UNCHANGED <<hosts, handler, waiting, failed>>

-----------------------------------------------------------------------------
\* The HTTP thread: getMeta for each request of server_data.php.

\* Faulty handler: the file is not emptied before the request.
HttpServe_NoClear ==
    /\ ProcessUnchanged
    /\ http = "idle" /\ waiting > 0
    /\ http' = "request"
    /\ UNCHANGED <<hosts, main, handler, waiting, failed>>

\* http::handler is called for the request and calls getMeta.
HttpServe ==
    /\ ProcessUnchanged
    /\ http = "idle" /\ waiting > 0
    /\ http' = "clear"
    /\ UNCHANGED <<hosts, main, handler, waiting, failed>>

HttpClear ==
    /\ ProcessUnchanged
    /\ http = "clear"
    /\ Clear
    /\ http' = "request"
    /\ UNCHANGED <<main, handler, waiting>>

\* growtopia1.com is resolved through the file: the request goes out to the
\* game, or back to this very thread, which waits for an answer without limit.
HttpRequest ==
    /\ ProcessUnchanged
    /\ http = "request"
    /\ http' = IF hosts = "patched" THEN "self" ELSE "asking"
    /\ UNCHANGED <<hosts, main, handler, waiting, failed>>

HttpResponse ==
    /\ ProcessUnchanged
    /\ http = "asking"
    /\ http' = "patch"
    /\ UNCHANGED <<hosts, main, handler, waiting, failed>>

\* The request throws, nothing catches it: std::terminate.
HttpThrow ==
    /\ up
    /\ http = "asking"
    /\ up' = FALSE /\ ended' = "terminated"
    /\ UNCHANGED <<hosts, threads, waiting, failed, runs>>

\* The file is patched again; with or without it the response is written.
HttpPatch ==
    /\ ProcessUnchanged
    /\ http = "patch"
    /\ \/ OpenTruncates /\ http' = "write" /\ UNCHANGED waiting
       \/ OpenFails /\ http' = "idle" /\ waiting' = waiting - 1
    /\ UNCHANGED <<main, handler>>

HttpWrite ==
    /\ ProcessUnchanged
    /\ http = "write"
    /\ hosts' = "patched"
    /\ http' = "idle"
    /\ waiting' = waiting - 1
    /\ UNCHANGED <<main, handler, failed>>

-----------------------------------------------------------------------------
\* The console handler, in a thread of its own; the default handler that runs
\* after it ends the process.

CtrlEvent ==
    /\ ProcessUnchanged
    /\ handler = "none"
    /\ handler' = "clear"
    /\ UNCHANGED <<hosts, main, http, waiting, failed>>

HandlerRoutine ==
    /\ ProcessUnchanged
    /\ handler = "clear"
    /\ Clear
    /\ handler' = "exit"
    /\ UNCHANGED <<main, http, waiting>>

ExitProcess ==
    /\ up
    /\ handler = "exit"
    /\ up' = FALSE /\ ended' = "handler"
    /\ UNCHANGED <<hosts, threads, waiting, failed, runs>>

-----------------------------------------------------------------------------
\* The environment.

\* A game client asks for server_data.php; the file leads it to the proxy.
ClientRequest ==
    /\ ProcessUnchanged
    /\ hosts = "patched" /\ http # "off"
    /\ waiting < MaxRequests
    /\ waiting' = waiting + 1
    /\ UNCHANGED <<hosts, threads, failed>>

Kill ==
    /\ up
    /\ up' = FALSE /\ ended' = "killed"
    /\ UNCHANGED <<hosts, threads, waiting, failed, runs>>

\* The proxy is started again, and finds the file as it was left.
Restart ==
    /\ ~up /\ runs < MaxRuns
    /\ runs' = runs + 1
    /\ up' = TRUE /\ ended' = "not"
    /\ main' = "clear" /\ http' = "off" /\ handler' = "none"
    /\ waiting' = 0 /\ failed' = FALSE
    /\ UNCHANGED hosts

Next ==
    \/ MainClear \/ MainRequest \/ MainPatch \/ MainWrite \/ MainStart
    \/ HttpServe \/ HttpClear \/ HttpRequest \/ HttpResponse \/ HttpThrow
    \/ HttpPatch \/ HttpWrite
    \/ CtrlEvent \/ HandlerRoutine \/ ExitProcess
    \/ ClientRequest \/ Kill \/ Restart

Spec == Init /\ [][Next]_vars

-----------------------------------------------------------------------------
\* Properties.

\* getMeta never asks the proxy itself, which would hang the HTTP thread for
\* ever, unless the file could not be opened: no thread patches the file
\* between the moment getMeta empties it and the moment it resolves the name.
NoSelfRequest == http = "self" => failed

\* Between two requests the file leads game clients to the proxy, whatever
\* earlier runs left in it, unless it could not be opened or the console
\* handler has begun to take the redirection away.
ServedPatched ==
    http = "idle" /\ handler = "none" /\ ~failed => hosts = "patched"

\* The console handler fixes the hosts file: a process that ended through it
\* leaves no redirection behind (files that cannot be opened apart).
ExitFixesHosts == ended = "handler" /\ ~failed => hosts # "patched"
=============================================================================
