----------------------------- MODULE UidResolver -----------------------------
(***************************************************************************)
(* The resolution of a player's name to a user id (/uid, src/proxy/        *)
(* events.cpp).  The proxy makes the server ignore the player on the       *)
(* client's behalf, reads the id off the list of ignored players, takes    *)
(* the player off the list again, and hides from the client the dialogs    *)
(* this causes.  gt::resolving_uid2 is all it remembers meanwhile.         *)
(*                                                                         *)
(* The game server is the environment: it answers requests in order, and   *)
(* the session may end at any time with what is under way.                 *)
(***************************************************************************)
EXTENDS Integers, Sequences, SequencesExt

CONSTANTS
    People,         \* the user ids; 0 is none of them
    Ignored0,       \* whom the client ignores already, oldest first, each once
    Given,          \* bound: the ids that /setuid is given
    MaxAsks,        \* bound: /uid commands
    MaxOpens,       \* bound: times the client opens the social portal itself
    MaxSessions     \* bound: upstream sessions

ASSUME ResolverAssumption ==
    /\ 0 \notin People
    /\ Ignored0 \in Seq(People)
    /\ \A i, j \in DOMAIN Ignored0 : Ignored0[i] = Ignored0[j] => i = j
    /\ Given \subseteq Int
    /\ {MaxAsks, MaxOpens, MaxSessions} \subseteq Nat

VARIABLES
    resolving,      \* gt::resolving_uid2
    uidz,           \* events::out::uidz, the resolved id
    requests,       \* on their way to the server
    answers,        \* on their way to the proxy
    ignored,        \* the server: whom the client ignores, oldest first
    bound,          \* [asks, opens, sessions]: how often the user and the network acted
    history         \* of the properties: see Init

uidVars == <<resolving, uidz, requests, answers, ignored, bound, history>>

-----------------------------------------------------------------------------
(* What travels.  by tells, for the properties, on whose behalf: "proxy" or *)
(* "user".                                                                  *)

Req(what, who, by) == [what |-> what, who |-> who, by |-> by]
Ans(what, who, by) == [what |-> what, who |-> who, by |-> by]

Messages == {"personIgnored", "nobodyOnline", "cleverPerhaps"}
Dialogs  == {"socialPortal", "showOffline", "stopIgnoring", "areYouSure", "nowAble", "emptyList"}

UidInit ==
    /\ resolving = FALSE
    /\ uidz = 0
    /\ requests = << >> /\ answers = << >>
    /\ ignored = Ignored0
    /\ bound = [asks |-> 0, opens |-> 0, sessions |-> 1]
    /\ history = [asked   |-> 0,        \* the player of the last /uid
                  before  |-> Ignored0, \* whom the client ignored when it was given
                  found   |-> FALSE,    \* the server ignores the player
                  set     |-> FALSE,    \* /setuid was given since an id was last read
                  overlap |-> FALSE,    \* a /uid was given before the last one was over
                  lost    |-> FALSE,    \* a session ended in the middle of a resolution
                  odd     |-> FALSE,    \* the list was not of the form the proxy reads
                  leaked  |-> FALSE]    \* the client was shown a dialog of the resolution

\* Nothing of a resolution is under way.
Quiet ==
    /\ ~resolving
    /\ \A i \in DOMAIN requests : requests[i].by = "user"
    /\ \A i \in DOMAIN answers : answers[i].by = "user"

-----------------------------------------------------------------------------
(* The proxy *)

\* The /uid command: any name, also that of a player the client ignores already.
AskUid(p) ==
    /\ bound.asks < MaxAsks
    /\ requests' = requests \o << Req("ignore", p, "proxy"), Req("friends", 0, "proxy") >>
    /\ resolving' = TRUE
    /\ bound' = [bound EXCEPT !.asks = @ + 1]
    /\ history' = [history EXCEPT !.asked = p, !.before = ignored, !.found = FALSE,
                                   !.leaked = FALSE, !.overlap = @ \/ ~Quiet]
    /\ UNCHANGED <<uidz, answers, ignored>>

\* Faulty variant: a player that cannot be ignored does not end the resolution.
OnGameMessage_KeepsWaiting ==
    /\ answers # << >> /\ Head(answers).what \in Messages
    /\ answers' = Tail(answers)
    /\ IF resolving /\ Head(answers).what = "personIgnored"
       THEN /\ requests' = requests \o << Req("showfriend", 0, "proxy"), Req("friend_all", 0, "proxy") >>
            /\ history' = [history EXCEPT !.found = TRUE]
       ELSE UNCHANGED <<requests, history>>
    /\ UNCHANGED <<resolving, uidz, ignored, bound>>

\* events::in::gamemessage
OnGameMessage ==
    /\ answers # << >> /\ Head(answers).what \in Messages
    /\ answers' = Tail(answers)
    /\ \/ /\ resolving /\ Head(answers).what = "personIgnored"
          /\ requests' = requests \o << Req("showfriend", 0, "proxy"), Req("friend_all", 0, "proxy") >>
          /\ history' = [history EXCEPT !.found = TRUE]
          /\ UNCHANGED resolving
       \/ /\ resolving /\ Head(answers).what \in {"nobodyOnline", "cleverPerhaps"}
          /\ resolving' = FALSE
          /\ UNCHANGED <<requests, history>>
       \/ /\ ~resolving
          /\ UNCHANGED <<resolving, requests, history>>
    /\ UNCHANGED <<uidz, ignored, bound>>

\* Faulty variant: the portal is hidden, the list of friends is not.
Hidden_PortalOnly(d) == (resolving /\ d.what = "socialPortal") \/ d.what = "areYouSure"

\* The dialogs that OnDialogRequest hides without more ado.
Hidden(d) == (resolving /\ d.what \in {"socialPortal", "showOffline"}) \/ d.what = "areYouSure"

\* Faulty variant: find in the place of rfind.
ReadId_First(list) == Head(list)

\* The id read off the list of ignored players: that of the last "Stop ignoring".
ReadId(list) == Last(list)

\* Faulty variant: the player is not taken off the list.
OnDialogRequest_NoRemove ==
    /\ answers # << >> /\ Head(answers).what \in Dialogs
    /\ answers' = Tail(answers)
    /\ IF ~Hidden(Head(answers)) /\ resolving /\ Head(answers).what = "stopIgnoring"
       THEN resolving' = FALSE /\ uidz' = Head(answers).who
       ELSE UNCHANGED <<resolving, uidz>>
    /\ UNCHANGED <<requests, history, ignored, bound>>

\* OnDialogRequest, as far as it is about the resolution.
OnDialogRequest ==
    /\ answers # << >> /\ Head(answers).what \in Dialogs
    /\ answers' = Tail(answers)
    /\ LET d == Head(answers)
       IN  \/ /\ Hidden(d)
              /\ UNCHANGED <<resolving, uidz, requests, history>>
           \/ /\ ~Hidden(d) /\ resolving /\ d.what = "nowAble"
              /\ resolving' = FALSE
              /\ UNCHANGED <<uidz, requests, history>>
           \/ /\ ~Hidden(d) /\ resolving /\ d.what = "stopIgnoring" /\ d.who = 0
              /\ resolving' = FALSE             \* atoi found no number
              /\ history' = [history EXCEPT !.odd = TRUE]
              /\ UNCHANGED <<uidz, requests>>
           \/ /\ ~Hidden(d) /\ resolving /\ d.what = "stopIgnoring" /\ d.who # 0
              /\ uidz' = d.who
              /\ requests' = requests \o << Req("click", d.who, "proxy"), Req("remove", d.who, "proxy") >>
              /\ history' = [history EXCEPT !.set = FALSE]
              /\ UNCHANGED resolving
           \/ /\ ~Hidden(d) /\ (~resolving \/ d.what \notin {"nowAble", "stopIgnoring"})
              /\ history' = [history EXCEPT !.leaked = @ \/ d.by = "proxy"]
              /\ UNCHANGED <<resolving, uidz, requests>>
    /\ UNCHANGED <<ignored, bound>>

\* What /setuid does when it has an id: it writes the same variable, also while a
\* resolution is under way.  (Whether it has one, and what becomes of the process
\* if not: EventHandlers!SetUid.)
SetUidz(id) ==
    /\ uidz' = id
    /\ history' = [history EXCEPT !.set = TRUE]
    /\ UNCHANGED <<resolving, requests, answers, ignored, bound>>

\* What is under way is gone with the host.
Dropped ==
    /\ requests' = << >> /\ answers' = << >>
    /\ history' = [history EXCEPT !.lost = @ \/ ~Quiet]
    /\ UNCHANGED <<resolving, uidz, ignored>>

\* disconnect and redirect_server leave resolving_uid2 as it is.
SessionEnds ==
    /\ bound.sessions < MaxSessions
    /\ bound' = [bound EXCEPT !.sessions = @ + 1]
    /\ Dropped

\* The process ends.
ProcessEnds == Dropped /\ UNCHANGED bound

-----------------------------------------------------------------------------
(* external: the client and the game server *)

\* The user opens the portal: the request passes through the proxy.
OpenPortal ==
    /\ bound.opens < MaxOpens
    /\ bound' = [bound EXCEPT !.opens = @ + 1]
    /\ requests' = Append(requests, Req("friends", 0, "user"))
    /\ UNCHANGED <<resolving, uidz, answers, ignored, history>>

\* The server answers the first request.
ServerAnswers ==
    /\ requests # << >>
    /\ requests' = Tail(requests)
    /\ LET r == Head(requests)
           answer(what, who) == answers' = Append(answers, Ans(what, who, r.by))
       IN  \/ /\ r.what = "ignore"
              /\ answer("personIgnored", 0)
              /\ ignored' = IF Contains(ignored, r.who) THEN ignored ELSE Append(ignored, r.who)
           \/ /\ r.what = "ignore"
              /\ answer("nobodyOnline", 0) \/ answer("cleverPerhaps", 0)
              /\ UNCHANGED ignored
           \/ /\ r.what = "friends"    /\ answer("socialPortal", 0) /\ UNCHANGED ignored
           \/ /\ r.what = "showfriend" /\ answer("showOffline", 0)  /\ UNCHANGED ignored
           \/ /\ r.what = "friend_all"          \* the list; who is the id the proxy will read
              /\ IF ignored = << >> THEN answer("emptyList", 0)
                 ELSE answer("stopIgnoring", ReadId(ignored)) \/ answer("stopIgnoring", 0)
              /\ UNCHANGED ignored
           \/ /\ r.what = "click" /\ answer("areYouSure", r.who) /\ UNCHANGED ignored
           \/ /\ r.what = "remove"
              /\ answer("nowAble", r.who)
              /\ \/ \E i \in DOMAIN ignored : ignored[i] = r.who /\ ignored' = RemoveAt(ignored, i)
                 \/ ~Contains(ignored, r.who) /\ UNCHANGED ignored
    /\ UNCHANGED <<resolving, uidz, bound, history>>

\* The steps that the options have no part in.
UidStep ==
    \/ \E p \in People : AskUid(p)
    \/ OnGameMessage
    \/ OnDialogRequest
    \/ SessionEnds
    \/ OpenPortal
    \/ ServerAnswers

UidNext ==
    \/ UidStep
    \/ \E id \in Given : SetUidz(id)
    \/ ProcessEnds

uidSpec == UidInit /\ [][UidNext]_uidVars

\* external: while a session lasts the server answers every request, since the
\* channel is reliable; the proxy handles what arrives.
UidFairness ==
    /\ WF_uidVars(ServerAnswers)
    /\ WF_uidVars(OnGameMessage)
    /\ WF_uidVars(OnDialogRequest)

-----------------------------------------------------------------------------
(* Properties *)

Traffic(S) == [what : S, who : People \cup {0}, by : {"proxy", "user"}]

\* Types of the resolution: every request about a player names one.
UidTypeOK ==
    /\ resolving \in BOOLEAN
    /\ uidz \in People \cup Given \cup {0}
    /\ requests \in Seq(Traffic({"ignore", "friends", "showfriend", "friend_all", "click", "remove"}))
    /\ \A i \in 1..Len(requests) :
          requests[i].what \in {"ignore", "click", "remove"} => requests[i].who \in People
    /\ answers \in Seq(Traffic(Messages \cup Dialogs))
    /\ ignored \in Seq(People)

\* No two resolutions overlapped, no session ended in the middle of one, and the
\* server's list could be read.
Undisturbed == ~history.overlap /\ ~history.lost /\ ~history.odd

\* The client ignored the player already when /uid was given.
Known == Contains(history.before, history.asked)

\* When a resolution is over, the client ignores the same players as before it: the
\* player that "/ignore" added is taken off the list, and only that one.  But if it
\* ignored the player already, "/ignore" adds nothing, and the last of the list goes,
\* a player the user had ignored and did not ask about, unless it is the same.
IgnoreListRestored ==
    (Quiet /\ Undisturbed) =>
        ignored = IF history.found /\ Known THEN Front(history.before) ELSE history.before

\* The id that is found, the last of the list, is that of the player asked for,
\* though the client ignores others too; it is another player's if the client ignored
\* the player already, and others since.  It stays until /setuid writes another.
ResolvesTheAsked ==
    (Quiet /\ Undisturbed /\ history.found /\ ~history.set) =>
        uidz = IF Known THEN Last(history.before) ELSE history.asked

\* The client sees none of the dialogs of a resolution that finds its player,
\* whenever it opens the social portal itself meanwhile.
ResolutionUnseen == (Undisturbed /\ history.found) => ~history.leaked

\* A resolution comes to an end, however commands overlap, unless the session
\* ends first: resolving_uid2 does not go on hiding the client's dialogs.
ResolutionEnds == resolving ~> (~resolving \/ history.lost)

=============================================================================
