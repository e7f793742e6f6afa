---------------------------- MODULE EventHandlers ----------------------------
(***************************************************************************)
(* The handlers of src/proxy/events.cpp that act on the player's options:  *)
(* chat commands, the proxy's own dialogs, and what is done with the       *)
(* dialogs and messages of the server.  (Session handlers: ProxySession;   *)
(* the tracked world: World; /uid: UidResolver.)                           *)
(*                                                                         *)
(* A packet is handled in one action; io is what the handler did with it:  *)
(* how much it sent to either side, and whether it returned true (the      *)
(* packet itself is not passed on).                                        *)
(***************************************************************************)
EXTENDS Integers, Sequences, FiniteSets, TaxCalculator

CONSTANTS
    Commands,       \* bound: the chat commands the player gives
    Modes,          \* bound: the answers to a wrench the player chooses
    Uids,           \* bound: the ids the server tells, "owner" or "current"
    Boxes,          \* bound: the boxes of the options dialog the player changes, one or two
                    \* in an answer
    MaxOn,          \* bound: options that are set at a time
    Percents,       \* bound: the tax percentages the player enters
    Counts,         \* bound: the counts of the drop dialogs
    MaxPopups       \* bound: wrenched players whose popup is still to come

ASSUME OptAssumption ==
    /\ Modes \subseteq {"Pull", "Kick", "Ban"}
    /\ Percents \subseteq Int
    /\ Counts \subseteq Nat
    /\ {MaxPopups, MaxOn} \subseteq Nat

VARIABLES
    on,             \* the options that are set: bool globals of events::out and gt
    mode,           \* events::out::mode, what a wrench is answered with
    yuzde,          \* events::out::yuzde, the tax in percent
    form,           \* [name, boxes]: the dialog with fields of the proxy that the client
                    \* shows, and the options whose box is ticked in it
    uids,           \* which of owneruid and currentuid the server has told
    alive,          \* the process
    popups,         \* [answers, state]: the popups of wrenched players still to come, how
                    \* often each was answered in advance, and "stale" if wrenchpull changed
    io              \* what became of the last packet

optVars == <<on, mode, yuzde, form, uids, alive, popups, io>>

-----------------------------------------------------------------------------
(* Options, and the fields of the dialogs that show them *)

\* The fields of the options dialog: the option each stands for, and the last
\* letters of its name, which generictext looks for to find the value.
OptionFields ==
    {[name |-> "roulette2",   option |-> "autopull",        key |-> "te2"],
     [name |-> "wrenchpull",  option |-> "wrenchpull",      key |-> "ull"],
     [name |-> "fastdrop",    option |-> "fastdrop",        key |-> "rop"],
     [name |-> "fasttrash",   option |-> "fasttrash",       key |-> "ash"],
     [name |-> "dicespeed",   option |-> "dicespeed",       key |-> "eed"],
     [name |-> "worldbanmod", option |-> "worldbanjoinmod", key |-> "mod"],
     [name |-> "visualspin",  option |-> "visualspin",      key |-> "pin"],
     [name |-> "autohosts",   option |-> "autohosts",       key |-> "sts"],
     [name |-> "wltroll1",    option |-> "wltroll",         key |-> "ll1"]}

\* The fields of the casino dialog.
CasinoFields ==
    {[name |-> "autotax",     option |-> "taxsystem",       key |-> "tax"],
     [name |-> "fastmode",    option |-> "fastmmode",       key |-> "ode"]}

AllFields == OptionFields \cup CasinoFields
Options == {f.option : f \in AllFields} \cup {"ghost", "dicemod", "visdice"}

Fields(name) == CASE name = "options" -> OptionFields
                  [] name = "casino"  -> CasinoFields
                  [] OTHER            -> {}

NoForm == [name |-> "none", boxes |-> {}]

\* Faulty variant: every option that is set is ticked.
Form_AllOptions(name) == [name |-> name, boxes |-> on]

Form(name) == [name |-> name, boxes |-> {f.option : f \in Fields(name)} \cap on]

\* What generictext reads for a field of an answer, a set of [key, value]: the
\* number after the place where the key is found.
ReadField(answer, field) == \E a \in answer : a.key = field.key /\ a.value # 0

\* The option of a field changes only when its name is in the answer.
Named(answer, field) == \E a \in answer : a.name = field.name

\* Faulty variant: a field that is not in the answer is read as not set.
ReadOptions_Unguarded(answer) == {f.option : f \in {g \in AllFields : ReadField(answer, g)}}

\* The options after generictext has looked for each field in turn.
ReadOptions(answer) ==
    LET named == {f \in AllFields : Named(answer, f)}
    IN  (on \ {f.option : f \in named}) \cup {f.option : f \in {g \in named : ReadField(answer, g)}}

-----------------------------------------------------------------------------
(* What a handler did with a packet: how much it sent to the client and to  *)
(* the server, and its return value.                                        *)

Did(client, server, consumed) == [client |-> client, server |-> server, consumed |-> consumed]

OptInit ==
    /\ on = {} /\ mode = "Pull" /\ yuzde = 10
    /\ form = NoForm /\ uids = {} /\ alive = TRUE /\ popups = << >>
    /\ io = Did(0, 0, TRUE)

-----------------------------------------------------------------------------
(* generictext: chat *)

EarlyForms == {"casino", "options", "account", "wrench"}
EarlyLocal == {"name", "flag"}
LateForms == {"country", "server", "vault", "whitelist", "logs", "world", "proxy"}
Toggled == [ghost |-> "ghost", wlt |-> "wltroll", dicemode |-> "dicemod", visdice |-> "visdice"]
\* What needs a role above 2 does nothing: type2, the role, is never set.
RoleLocal == {"crash", "setx", "sety", "setid", "bypassdoor", "bypasspath"}
LateLocal == RoleLocal \cup {"tp", "dset", "skin", "dropentire"}
LateRequest == {"bypassvault", "save", "warp"}

\* The commands before the test of autopull, and those after it.
EarlyCommands == EarlyLocal \cup EarlyForms \cup {"ghost"}
LateCommands == LateLocal \cup LateForms \cup LateRequest \cup {"wlt", "dicemode", "visdice"}

Flip(o) == IF o \in on THEN on \ {o} ELSE on \cup {o}

\* A command that find_command recognizes.
Command(c) ==
    /\ on' = IF c \in DOMAIN Toggled THEN Flip(Toggled[c]) ELSE on
    /\ form' = IF c \in EarlyForms \cup LateForms THEN Form(c) ELSE form
    /\ io' = Did(0, IF c \in LateRequest THEN 1 ELSE 0, TRUE)

\* While autopull is set every other line is the name of a player to pull, but for
\* one that mentions "/options", which goes nowhere.
AutoPull(c) ==
    /\ io' = Did(0, IF c = "mention" THEN 0 ELSE 1, TRUE)
    /\ UNCHANGED <<on, form>>

\* "action|input": a command, or plain text ("chat", "mention"), in a world or not.
Chat(c, connected) ==
    /\ alive
    /\ \/ connected /\ c \in EarlyCommands /\ Command(c)
       \/ connected /\ c \notin EarlyCommands /\ "autopull" \in on /\ AutoPull(c)
       \/ connected /\ c \in LateCommands /\ "autopull" \notin on /\ Command(c)
       \/ /\ ~connected \/ (c \notin EarlyCommands \cup LateCommands /\ "autopull" \notin on)
          /\ io' = Did(0, 0, FALSE)
          /\ UNCHANGED <<on, form>>
    /\ UNCHANGED <<mode, yuzde, uids, alive, popups>>

\* /setuid: stoi of an id the server has not told throws, and nothing catches it; that
\* of what the user enters is caught.  What it writes is uidz: UidResolver!SetUidz, a
\* step of both modules (MCEventHandlers!SetUidCommand).
SetUid(which) ==
    /\ alive
    /\ "autopull" \notin on
    /\ alive' = (which = "number" \/ which \in uids)
    /\ io' = Did(0, 0, TRUE)
    /\ UNCHANGED <<on, mode, yuzde, form, uids, popups>>

\* events::in::tracking tells the ids.
Tracking(which) ==
    /\ alive
    /\ uids' = uids \cup {which}
    /\ io' = Did(0, 0, TRUE)
    /\ UNCHANGED <<on, mode, yuzde, form, alive, popups>>

-----------------------------------------------------------------------------
(* generictext: the proxy's dialogs are answered.  Nothing returns true, so *)
(* the server gets the answer too.                                          *)

\* The answer of the client: the boxes as they were shown, but for those in flipped.
Answer(flipped) ==
    {[name |-> f.name, key |-> f.key,
      value |-> IF f.option \in form.boxes THEN IF f.name \in flipped THEN 0 ELSE 1
                ELSE IF f.name \in flipped THEN 1 ELSE 0] : f \in Fields(form.name)}

\* The popups to come, when the options become now: stale if wrenchpull changes.
Marked(now) ==
    IF "wrenchpull" \in on <=> "wrenchpull" \in now THEN popups
    ELSE [i \in DOMAIN popups |-> [popups[i] EXCEPT !.state = "stale"]]

\* The options dialog is answered.
AnswerOptions(flipped) ==
    /\ alive /\ form.name = "options"
    /\ on' = ReadOptions(Answer(flipped))
    /\ popups' = Marked(on')
    /\ io' = Did(0, 0, FALSE)
    /\ form' = NoForm
    /\ UNCHANGED <<mode, yuzde, uids, alive>>

\* The casino dialog is answered; what is not a number (none) leaves yuzde alone.
AnswerCasino(flipped, amounts) ==
    /\ alive /\ form.name = "casino"
    /\ on' = ReadOptions(Answer(flipped))
    /\ io' = Did(0, 0, FALSE)
    /\ yuzde' \in IF amounts = {} THEN {yuzde} ELSE amounts
    /\ form' = NoForm
    /\ UNCHANGED <<mode, uids, alive, popups>>

\* A button of the wrench dialog.
AnswerWrench(m) ==
    /\ alive /\ form.name = "wrench"
    /\ mode' = m
    /\ form' = NoForm
    /\ io' = Did(0, 0, FALSE)
    /\ UNCHANGED <<on, yuzde, uids, alive, popups>>

\* The button "optionzzz" that the proxy put in the player's own profile.
OptionsButton ==
    /\ alive /\ form.name = "profile"
    /\ form' = Form("options")
    /\ io' = Did(1, 0, FALSE)
    /\ UNCHANGED <<on, mode, yuzde, uids, alive, popups>>

\* worldoptions: a request for every player of the world but the own (one here),
\* if there is one.
WorldOptions == \E players \in 0 .. 1 : io' = Did(0, players, FALSE)

\* Another dialog of the proxy is answered: the fields of country and vault are
\* kept, a button shows the list of countries, those of /world act on players.
AnswerOther ==
    /\ alive /\ form.name \notin {"none", "options", "casino", "wrench", "profile"}
    /\ \/ form.name = "country" /\ io' = Did(1, 0, FALSE)
       \/ form.name = "world" /\ WorldOptions
       \/ io' = Did(0, 0, FALSE)
    /\ form' = NoForm
    /\ UNCHANGED <<on, mode, yuzde, uids, alive, popups>>

\* The client closes a dialog: it sends nothing.
Cancel ==
    /\ form # NoForm
    /\ form' = NoForm
    /\ UNCHANGED <<on, mode, yuzde, uids, alive, popups, io>>

\* Faulty variant: a popup is answered in advance whatever the option.
Wrench_AlwaysAnswers ==
    /\ alive /\ Len(popups) < MaxPopups
    /\ popups' = Append(popups, [answers |-> 1, state |-> "fresh"])
    /\ io' = Did(1, 2, TRUE)
    /\ UNCHANGED <<on, mode, yuzde, form, uids, alive>>

\* "action|wrench" on a player: with wrenchpull the proxy sends it itself, and the
\* answer to the popup it will bring.
Wrench ==
    /\ alive /\ Len(popups) < MaxPopups
    /\ LET pull == "wrenchpull" \in on
       IN  /\ popups' = Append(popups, [answers |-> IF pull THEN 1 ELSE 0, state |-> "fresh"])
           /\ io' = IF pull THEN Did(1, 2, TRUE)
                    ELSE Did(0, 0, FALSE)
    /\ UNCHANGED <<on, mode, yuzde, form, uids, alive>>

-----------------------------------------------------------------------------
(* OnDialogRequest, after the tests of UidResolver.  A dialog is what the   *)
(* handler finds in its content, and the count it offers.                   *)

ServerDialogs ==
    [has : {{"unaccess"}, {"worldLock", "id242"}, {"worldLock"}, {"dice"}, {"human"}, {"gazette"},
            {"Trash", "itemID"}, {"netID", "reportPlayer"}, {"netID", "myWorlds"}, {}},
     count : {0}]
    \cup [has : {{"Drop", "itemID"}, {"Drop", "itemID", "id242"}}, count : Counts]

Popup == [has |-> {"netID", "reportPlayer"}, count |-> 0]

\* A block of the handler: when it returns, what it has done when it does, and the
\* count it has sent.
Block(cond, did, count) == [cond |-> cond, did |-> did, count |-> count]

Answers == Did(0, 1, TRUE)
SendsOwn == Did(1, 0, TRUE)
Swallows == Did(0, 0, TRUE)
PassesOn == Did(0, 0, FALSE)

IsSet(o) == o \in on
Taxed(d) == IsSet("taxsystem") /\ {"Drop", "itemID", "id242"} \subseteq d.has

\* Faulty variant: after the answer with the taxed count fastdrop is looked at too.
TaxBlocks_FallThrough(d) ==
    LET taxed == TaxedCount(d.count, yuzde)
    IN  << Block(Taxed(d) /\ IsSet("fastmmode"), Did(0, IF IsSet("fastdrop") THEN 2 ELSE 1, TRUE), taxed),
           Block(Taxed(d), SendsOwn, taxed) >>

\* The blocks of the tax.
TaxBlocks(d) ==
    LET taxed == TaxedCount(d.count, yuzde)
    IN  << Block(Taxed(d) /\ IsSet("fastmmode"), Answers,  taxed),
           Block(Taxed(d),                       SendsOwn, taxed) >>

\* All blocks in their order.  The second test of taxsystem and fastmmode never
\* holds where it stands, after the first has returned.
Blocks(d) ==
    LET has(S) == S \subseteq d.has
    IN  << Block(has({"unaccess"}) /\ IsSet("worldbanjoinmod"),   Answers,  0),
           Block(IsSet("wltroll") /\ has({"worldLock", "id242"}), Answers,  0),
           Block(IsSet("dicemod") /\ has({"dice"}),               Answers,  0),
           Block(has({"human"}),                                  Answers,  0),
           Block(has({"gazette"}),                                SendsOwn, 0),
           TaxBlocks(d)[1],
           TaxBlocks(d)[2],
           Block(IsSet("fastdrop") /\ has({"itemID", "Drop"}),    Answers,  d.count),
           Block(IsSet("fasttrash") /\ has({"itemID", "Trash"}),  Answers,  0),
           Block(IsSet("wrenchpull") /\ has({"netID"}),           Swallows, 0),
           Block(~IsSet("wrenchpull") /\ has({"reportPlayer"}),   SendsOwn, 0),
           Block(~IsSet("wrenchpull") /\ has({"myWorlds"}),       SendsOwn, 0),
           Block(TRUE,                                            PassesOn, d.count) >>

\* The block that returns.
Returning(d) ==
    LET blocks == Blocks(d)
    IN  blocks[CHOOSE i \in DOMAIN blocks : blocks[i].cond /\ \A j \in 1 .. i - 1 : ~blocks[j].cond]

\* What the client is shown of a packet of the server.
Shown(did) == did.client + IF did.consumed THEN 0 ELSE 1

\* A dialog of the server, not that of a wrenched player.
DialogRequest(d) ==
    /\ alive /\ "reportPlayer" \notin d.has
    /\ io' = Returning(d).did
    /\ form' = IF Shown(io') = 0 THEN form
               ELSE IF "myWorlds" \in d.has THEN Form("profile") ELSE NoForm
    /\ UNCHANGED <<on, mode, yuzde, uids, alive, popups>>

\* The popup of the player that was wrenched first.
PopupRequest ==
    /\ alive /\ popups # << >>
    /\ popups' = Tail(popups)
    /\ io' = Returning(Popup).did
    /\ form' = IF Shown(io') = 0 THEN form ELSE NoForm
    /\ UNCHANGED <<on, mode, yuzde, uids, alive>>

-----------------------------------------------------------------------------
(* OnConsoleMessage, OnTalkBubble, onShowCaptcha *)

Lines == {"spin", "accessRemoved", "other"}     \* of the own spin of the wheel, of the end of an access

\* OnConsoleMessage: sent again in every case, and the world is left when an access ends.
OnConsole(line) == Did(1, IF "worldbanjoinmod" \in on /\ line = "accessRemoved" THEN 1 ELSE 0, TRUE)

\* OnTalkBubble: sent again, but one that is not of the own spin is passed on while
\* visualspin is set.
OnBubble(line) == IF "visualspin" \in on /\ line # "spin" THEN PassesOn ELSE SendsOwn

ChatLine(line) ==
    /\ alive
    /\ io' = OnConsole(line) \/ io' = OnBubble(line)
    /\ UNCHANGED <<on, mode, yuzde, form, uids, alive, popups>>

\* A captcha: a sum is solved here; for a puzzle another host is asked, which
\* solves it, fails, or does not answer: the request then throws, uncaught.
ShowCaptcha ==
    /\ alive
    /\ \/ io' = Did(0, 1, TRUE) /\ UNCHANGED alive
       \/ io' = Did(0, 0, FALSE) /\ UNCHANGED alive
       \/ io' = Did(0, 0, TRUE) /\ alive' = FALSE
    /\ UNCHANGED <<on, mode, yuzde, form, uids, popups>>

\* The steps that uidz has no part in.
OptStep ==
    \/ \E c \in Commands, connected \in BOOLEAN : Chat(c, connected) /\ Cardinality(on') <= MaxOn
    \/ \E which \in Uids : Tracking(which)
    \/ \E a, b \in Boxes : AnswerOptions({a, b}) /\ Cardinality(on') <= MaxOn
    \/ \E flipped \in SUBSET {"autotax", "fastmode"}, amounts \in {{}, Percents} :
          AnswerCasino(flipped, amounts) /\ Cardinality(on') <= MaxOn
    \/ \E m \in Modes : AnswerWrench(m)
    \/ OptionsButton
    \/ AnswerOther
    \/ Cancel
    \/ Wrench
    \/ \E d \in ServerDialogs : DialogRequest(d)
    \/ PopupRequest
    \/ \E line \in Lines : ChatLine(line)
    \/ ShowCaptcha

OptNext == OptStep \/ \E which \in Uids \cup {"number"} : SetUid(which)

OptSpec == OptInit /\ [][OptNext]_optVars

-----------------------------------------------------------------------------
(* Properties *)

\* Types of the options; a dialog has ticked only boxes of its own.
OptTypeOK ==
    /\ on \subseteq Options
    /\ mode \in {"Pull", "Kick", "Ban"}
    /\ yuzde \in Percents \cup {10}
    /\ form.name \in EarlyForms \cup LateForms \cup {"none", "profile"}
    /\ form.boxes \subseteq {f.option : f \in Fields(form.name)}
    /\ uids \subseteq Uids
    /\ alive \in BOOLEAN
    /\ Len(popups) <= MaxPopups

\* The answer to a dialog of the proxy leaves every option it has a box for as the
\* box was when it was sent, whatever commands changed meanwhile, and every other
\* option alone: no field is read for another one whose name ends alike.
OptionsFaithful ==
    LET shown == {f.name : f \in Fields(form.name)} \cap (Boxes \cup {"autotax", "fastmode"})
    IN  \A flipped \in {{}} \cup {{a, b} : a, b \in shown} :
        LET now == ReadOptions(Answer(flipped))
        IN  \A o \in Options :
                LET box == {f \in Fields(form.name) : f.option = o}
                IN  o \in now <=> IF box = {} THEN o \in on
                                  ELSE ~(o \in form.boxes <=> \E f \in box : f.name \in flipped)

\* Each packet of the server is settled once, however the options are combined: a
\* dialog is shown to the client or answered for it, never both, twice or neither
\* (only one with a netID is dropped, and only with wrenchpull), and a line of chat
\* that a handler sends again is not passed on too.
SettledOnce ==
    /\ \A d \in ServerDialogs :
          LET did == Returning(d).did
          IN  \/ Shown(did) + did.server = 1
              \/ Shown(did) + did.server = 0 /\ "wrenchpull" \in on /\ "netID" \in d.has
    /\ \A line \in Lines : Shown(OnConsole(line)) = 1 /\ Shown(OnBubble(line)) = 1

\* The popup of a wrenched player is shown to the client or was answered for it in
\* advance, never both or neither; only a change of wrenchpull between the wrench
\* and its popup can break that.
PopupAgrees ==
    \A i \in DOMAIN popups :
        popups[i].state = "fresh" => popups[i].answers + Shown(Returning(Popup).did) = 1

\* The count that is sent for a bet is one the player can drop, not less than zero
\* and not more than was bet, for percentages from 0 to SafePercent (the field
\* takes two characters: others can be entered, and no test refuses them).
TaxWithin ==
    yuzde \in 0 .. SafePercent =>
        \A d \in ServerDialogs : "Drop" \in d.has => Returning(d).count \in 0 .. d.count

=============================================================================
