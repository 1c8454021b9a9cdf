---------------------------- MODULE PushBindings ----------------------------
(***************************************************************************)
(* The channels users are notified through (internal/store/push.go), as far *)
(* as connections to bots go, and the QR dialogs that bind a QQ bot or a    *)
(* Weixin bot to one (internal/notify/binding.go, api/push_binding.go).     *)
(*                                                                         *)
(* A dialog is one bindingSession; its goroutine asks the provider without  *)
(* a lock for up to five minutes, while the user may edit the settings,     *)
(* cancel or begin anew, and an administrator may take the access away.     *)
(* Saving the settings and storing a binding are steps under Store.mu.      *)
(*                                                                         *)
(* A bot stands for the AppID or the bot's id; the other credentials of a   *)
(* connection are one secret. Names, recipients and providers without a     *)
(* connection are left out. A save that fails changes nothing.              *)
(***************************************************************************)
EXTENDS Naturals, FiniteSets, Sequences

CONSTANTS
    Users,
    Channels,       \* identities of channels, none of them used twice
    QQBots, WeixinBots,
    Secrets,
    Dialogs,
    None,           \* nobody, no bot, no secret, no channel, no dialog
    MaxChannels,    \* channels of a user; 10 in the code
    MaxSessions,    \* dialogs kept; 200 in the code
    MaxActs         \* bound on what users, administrators and timers do

Bots == QQBots \union WeixinBots

ASSUME BindingsAssumption ==
    /\ None \notin Users \union Channels \union Bots \union Secrets \union Dialogs
    /\ QQBots \intersect WeixinBots = {}
    /\ {MaxChannels, MaxSessions, MaxActs} \subseteq Nat

VARIABLES
    member,         \* user -> its state
    revision,       \* user -> revision of the push settings
    channel,
    dialog,
    session,        \* Bindings.sessions: user -> dialog
    revoking,       \* user -> what a handler has yet to revoke, in order
    stopped,        \* managers that were stopped
    revoked,        \* history: dialogs that must not bind anything any more
    acts

bindingVars == <<member, revision, channel, dialog, session, revoking, stopped, revoked, acts>>

States == {"", "connecting", "ready", "reconnecting", "disconnected", "error", "waiting", "expired"}

Channel == [owner : Users \union {None}, used : BOOLEAN, bot : Bots \union {None},
            secret : Secrets \union {None}, enabled : BOOLEAN, state : States]

NoChannel == [owner |-> None, used |-> FALSE, bot |-> None, secret |-> None,
              enabled |-> FALSE, state |-> ""]

\* `seen` is the settings the user looked at; `bound` is history.
Dialog == [user : Users \union {None}, target : Channels \union {None}, qq : BOOLEAN, revision : Nat,
           seen : SUBSET (Channels \X (Bots \union {None}) \X (Secrets \union {None}) \X BOOLEAN),
           step : {"new", "checked", "asking", "pairing", "failed", "returning", "over"},
           live : BOOLEAN, running : BOOLEAN, expired : BOOLEAN, bound : BOOLEAN,
           bot : Bots \union {None}, secret : Secrets \union {None}]

NewDialog ==
    [user |-> None, target |-> None, qq |-> FALSE, revision |-> 0, seen |-> {}, step |-> "new",
     live |-> FALSE, running |-> FALSE, expired |-> FALSE, bound |-> FALSE, bot |-> None, secret |-> None]

BindingsInit ==
    /\ member = [u \in Users |-> "active"]
    /\ revision = [u \in Users |-> 1]
    /\ channel = [c \in Channels |-> NoChannel]
    /\ dialog = [d \in Dialogs |-> NewDialog]
    /\ session = [u \in Users |-> None]
    /\ revoking = [u \in Users |-> <<>>]
    /\ stopped = {}
    /\ revoked = {}
    /\ acts = 0

-----------------------------------------------------------------------------
(* The store. *)

Owned(u) == {c \in Channels : channel[c].owner = u}

Existing == {c \in Channels : channel[c].owner # None}

IsQQ(c) == channel[c].bot \in QQBots

SameProvider(bot, other) == bot \in QQBots <=> other \in QQBots

\* The settings of a user, without what the monitors write.
Config(u) == {<<c, channel[c].bot, channel[c].secret, channel[c].enabled>> : c \in Owned(u)}

\* Mutant: only the user's own channels are looked at.
ElsewhereOfUser(u, bot, c) == \E other \in Owned(u) \ {c} : channel[other].bot = bot

Elsewhere(u, bot, c) == \E other \in Existing \ {c} : channel[other].bot = bot

\* BindPushChannel. Without a target it makes a channel, which is enabled when
\* the provider told who scanned the code.
CanBind(u, target, seen, bot) ==
    /\ member[u] = "active"
    /\ revision[u] = seen
    /\ target # None => target \in Owned(u) /\ SameProvider(channel[target].bot, bot)
    /\ target = None => Cardinality(Owned(u)) < MaxChannels
    /\ ~Elsewhere(u, bot, target)

Bind(u, target, bot, secret, enabled) ==
    \E c \in IF target = None THEN {free \in Channels : ~channel[free].used} ELSE {target} :
        /\ channel' = [channel EXCEPT ![c] =
                          [owner |-> u, used |-> TRUE, bot |-> bot, secret |-> secret,
                           enabled |-> enabled,
                           state |-> IF bot \in QQBots THEN "connecting" ELSE "waiting"]]
        /\ revision' = [revision EXCEPT ![u] = revision[u] + 1]

\* UpdatePushSettings: channels the patch leaves out are gone, and one of the
\* others, or a new one, gets other settings. A connection that is no longer the
\* same one starts without a state; another QQ bot needs a secret of its own.
\* Only a QQ bot is looked for in other channels.
Edited(c, bot, secret, enabled) ==
    [channel[c] EXCEPT !.bot = bot, !.secret = secret, !.enabled = enabled,
                       !.state = IF <<bot, secret>> = <<channel[c].bot, channel[c].secret>>
                                   THEN channel[c].state ELSE ""]

Added(u, bot, secret, enabled) ==
    [owner |-> u, used |-> TRUE, bot |-> bot, secret |-> secret, enabled |-> enabled, state |-> ""]

UpdatePush(u) ==
    /\ member[u] = "active"
    /\ \E keep \in SUBSET Owned(u) :
       \E c \in keep \union {new \in Channels : ~channel[new].used} \union {None} :
       \E bot \in Bots, secret \in Secrets \union {None}, enabled \in BOOLEAN :
          LET left == [i \in Channels |-> IF i \in Owned(u) \ keep
                                            THEN [NoChannel EXCEPT !.used = TRUE] ELSE channel[i]]
          IN  /\ Cardinality(keep \union ({c} \ {None})) <= MaxChannels
              /\ IF c = None THEN channel' = left
                 ELSE /\ c \in keep => SameProvider(channel[c].bot, bot)
                      /\ enabled => secret # None
                      /\ bot \in QQBots => ~\E other \in Channels \ {c} : left[other].bot = bot
                      /\ channel' = [left EXCEPT ![c] =
                                        IF c \in keep THEN Edited(c, bot, secret, enabled)
                                        ELSE Added(u, bot, secret, enabled)]
    /\ revision' = [revision EXCEPT ![u] = revision[u] + 1]

-----------------------------------------------------------------------------
(* Dialogs. *)

Step(d) == dialog[d].step

Owner(d) == dialog[d].user

Current(d) == session[Owner(d)] = d

\* pushQRStart looks at the settings before it starts a dialog; they may change
\* in between.
PushQRStart(u, d, target, qq) ==
    /\ Step(d) = "new" /\ member[u] = "active"
    /\ target # None => target \in Owned(u) /\ IsQQ(target) = qq
    /\ target = None => Cardinality(Owned(u)) < MaxChannels
    /\ dialog' = [dialog EXCEPT ![d] =
                     [dialog[d] EXCEPT !.step = "checked", !.user = u, !.target = target, !.qq = qq,
                                       !.revision = revision[u], !.seen = Config(u)]]
    /\ UNCHANGED <<member, revision, channel, session, revoking, stopped, revoked>>

\* The dialog that goes on is the one a page asked for before it was reloaded.
Restored(d, old) ==
    /\ old # None
    /\ dialog[old].running /\ dialog[old].live
    /\ <<dialog[old].qq, dialog[old].target, dialog[old].revision>>
          = <<dialog[d].qq, dialog[d].target, dialog[d].revision>>

\* Start cancels the user's older dialog and forgets those that expired.
BindingStart(d) ==
    LET u == Owner(d)
        old == session[u]
        left == [v \in Users |-> IF session[v] # None /\ dialog[session[v]].expired THEN None
                                 ELSE session[v]]
        full == Cardinality({v \in Users : left[v] # None}) >= MaxSessions /\ left[u] = None
        replaced == IF old = None THEN dialog ELSE [dialog EXCEPT ![old].live = FALSE]
    IN  /\ Step(d) = "checked"
        /\ IF "bindings" \in stopped \/ Restored(d, old)
             THEN /\ dialog' = [dialog EXCEPT ![d].step = "over"]
                  /\ UNCHANGED <<session, revoked>>
             ELSE /\ dialog' = IF full THEN [replaced EXCEPT ![d].step = "over"]
                               ELSE [replaced EXCEPT ![d] =
                                       [dialog[d] EXCEPT !.step = "asking", !.live = TRUE, !.running = TRUE]]
                  /\ session' = IF full THEN left ELSE [left EXCEPT ![u] = d]
                  /\ revoked' = revoked \union ({old} \ {None})
        /\ UNCHANGED <<member, revision, channel, revoking, stopped>>

\* The goroutine asks the provider; showing the code ends it when the dialog is
\* not wanted any more.
Moves(d, step) ==
    /\ dialog' = [dialog EXCEPT ![d].step = step]
    /\ UNCHANGED <<member, revision, channel, session, revoking, stopped, revoked>>

BindingFails(d) == Step(d) \in {"asking", "pairing"} /\ Moves(d, "failed")

\* The provider hands over the bot that was chosen.
BindingConfirmed(d, bot, secret) ==
    /\ Step(d) = "asking"
    /\ dialog[d].qq = (bot \in QQBots)
    /\ dialog' = [dialog EXCEPT ![d] =
                     [dialog[d] EXCEPT !.step = "returning", !.bot = bot, !.secret = secret]]
    /\ UNCHANGED <<member, revision, channel, session, revoking, stopped, revoked>>

\* Weixin may ask for a number, which the goroutine waits for.
PairingAsked(d) == Step(d) = "asking" /\ ~dialog[d].qq /\ Current(d) /\ dialog[d].live /\ Moves(d, "pairing")

Verify(u) ==
    /\ session[u] # None /\ dialog[session[u]].live
    /\ Step(session[u]) = "pairing"
    /\ Moves(session[u], "asking")

\* Mutant: a dialog binds although it was cancelled.
WantedWhenCurrent(d) == Current(d)

Wanted(d) == Current(d) /\ dialog[d].live

\* The end of run, under the manager's lock; storing the binding included.
BindingEnds(d) ==
    /\ Step(d) \in {"failed", "returning"}
    /\ LET over == [dialog[d] EXCEPT !.step = "over", !.live = FALSE,
                                     !.running = dialog[d].running /\ ~Current(d)]
           u == Owner(d)
       IN  IF Step(d) = "returning" /\ Wanted(d)
                /\ CanBind(u, dialog[d].target, dialog[d].revision, dialog[d].bot)
             THEN \/ \E enabled \in BOOLEAN : Bind(u, dialog[d].target, dialog[d].bot, dialog[d].secret, enabled)
                     /\ dialog' = [dialog EXCEPT ![d] = [over EXCEPT !.bound = TRUE]]
                  \/ UNCHANGED <<channel, revision>> /\ dialog' = [dialog EXCEPT ![d] = over]
             ELSE UNCHANGED <<channel, revision>> /\ dialog' = [dialog EXCEPT ![d] = over]
    /\ UNCHANGED <<member, session, revoking, stopped, revoked>>

Cancelled(d) == [dialog EXCEPT ![d].live = FALSE, ![d].running = FALSE]

CancelBinding(u) ==
    IF session[u] = None THEN UNCHANGED <<dialog, revoked>>
    ELSE /\ dialog' = Cancelled(session[u])
         /\ revoked' = revoked \union {session[u]}

PushQRCancel(u) ==
    /\ session[u] # None
    /\ CancelBinding(u)
    /\ UNCHANGED <<member, revision, channel, session, revoking, stopped>>

BindingTimesOut(d) ==
    /\ Step(d) \in {"asking", "pairing", "failed", "returning"} /\ ~dialog[d].expired
    /\ dialog' = [dialog EXCEPT ![d].live = FALSE, ![d].expired = TRUE]
    /\ revoked' = revoked \union {d}
    /\ UNCHANGED <<member, revision, channel, session, revoking, stopped>>

\* Stop cancels every dialog, and waits for its goroutine.
StopBindings ==
    /\ "bindings" \notin stopped
    /\ stopped' = stopped \union {"bindings"}
    /\ dialog' = [d \in Dialogs |-> IF \E u \in Users : session[u] = d
                                      THEN [dialog[d] EXCEPT !.live = FALSE] ELSE dialog[d]]
    /\ revoked' = revoked \union ({session[u] : u \in Users} \ {None})
    /\ UNCHANGED <<member, revision, channel, session, revoking>>

-----------------------------------------------------------------------------
(* Losing one's access: cancelUserWork, then for a deletion the deletion. *)

CancelUserWork == <<"dialog", "gateway">>

Revokes(u, what) ==
    /\ revoking[u] = <<>> /\ member[u] # "gone"
    /\ revoking' = [revoking EXCEPT ![u] = what]
    /\ UNCHANGED <<revision, channel, dialog, session, stopped, revoked>>

Disable(u) == Revokes(u, CancelUserWork) /\ member' = [member EXCEPT ![u] = "disabled"]

Enable(u) ==
    /\ member[u] = "disabled"
    /\ member' = [member EXCEPT ![u] = "active"]
    /\ UNCHANGED <<revision, channel, dialog, session, revoking, stopped, revoked>>

Delete(u) == Revokes(u, Append(CancelUserWork, "delete")) /\ UNCHANGED member

Logout(u) == Revokes(u, <<"dialog">>) /\ UNCHANGED member

Revoked(u) ==
    /\ revoking[u] # <<>>
    /\ revoking' = [revoking EXCEPT ![u] = Tail(revoking[u])]
    /\ IF Head(revoking[u]) = "dialog" THEN CancelBinding(u) ELSE UNCHANGED <<dialog, revoked>>
    /\ IF Head(revoking[u]) = "delete"
         THEN /\ member' = [member EXCEPT ![u] = "gone"]
              /\ channel' = [c \in Channels |-> IF channel[c].owner = u
                                                  THEN [NoChannel EXCEPT !.used = TRUE] ELSE channel[c]]
         ELSE UNCHANGED <<member, channel>>
    /\ UNCHANGED <<revision, session, stopped>>

-----------------------------------------------------------------------------
\* What goes on by itself.
DialogGoesOn(d) ==
    \/ BindingStart(d) \/ BindingFails(d) \/ PairingAsked(d) \/ BindingEnds(d)
    \/ \E bot \in Bots, secret \in Secrets : BindingConfirmed(d, bot, secret)

\* What users, administrators and timers do.
BindingActs ==
    \/ \E u \in Users : \/ UpdatePush(u)
                           /\ UNCHANGED <<member, dialog, session, revoking, stopped, revoked>>
                        \/ PushQRCancel(u) \/ Disable(u) \/ Delete(u) \/ Logout(u) \/ Verify(u)
    \/ \E d \in Dialogs : BindingTimesOut(d)
    \/ StopBindings

\* What is free: beginning the dialogs there are, and taking back a disabling.
Begins ==
    \E u \in Users :
        \/ Enable(u)
        \/ \E d \in Dialogs, qq \in BOOLEAN, target \in Channels \union {None} :
              PushQRStart(u, d, target, qq)

BindingsNext ==
    \/ Begins /\ UNCHANGED acts
    \/ \E d \in Dialogs : DialogGoesOn(d) /\ UNCHANGED acts
    \/ \E u \in Users : Revoked(u) /\ UNCHANGED acts
    \/ BindingActs /\ acts < MaxActs /\ acts' = acts + 1

BindingsSpec == BindingsInit /\ [][BindingsNext]_bindingVars

-----------------------------------------------------------------------------
(* Properties. *)

BindingsTypeOK ==
    /\ member \in [Users -> {"active", "disabled", "gone"}]
    /\ revision \in [Users -> Nat]
    /\ channel \in [Channels -> Channel]
    /\ dialog \in [Dialogs -> Dialog]
    /\ session \in [Users -> Dialogs \union {None}]
    /\ revoked \subseteq Dialogs
    /\ acts \in Nat

\* A QQ bot serves one channel on the whole site, however dialogs and edits of
\* several users interleave: two gateway connections would take turns.
QQBotsUnique ==
    \A c, other \in Existing : c # other /\ IsQQ(c) => channel[c].bot # channel[other].bot

\* A dialog binds only while it is wanted - not cancelled, replaced, timed out
\* or revoked - and only onto the settings the user saw when it was begun: an
\* edit made while the code was shown is never overwritten.
BindsWhatWasSeen ==
    [][\A d \in Dialogs : dialog'[d].bound /\ ~dialog[d].bound =>
          /\ d \notin revoked
          /\ dialog[d].seen = Config(Owner(d))]_bindingVars
=============================================================================
