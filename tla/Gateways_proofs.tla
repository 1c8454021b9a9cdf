--------------------------- MODULE Gateways_proofs ---------------------------
(***************************************************************************)
(* Proofs about Gateways and the PushBindings it extends, for every number  *)
(* of users, channels, bots, dialogs and goroutines and every limit.        *)
(*                                                                         *)
(* ChannelsInv is what the store keeps, SessionsInv what the dialogs keep   *)
(* and know of the store, WorkersInv what the monitors keep.                *)
(***************************************************************************)
EXTENDS Gateways, TLAPS

-----------------------------------------------------------------------------
(* The store. *)

\* A channel that is not a user's connects to nothing; one that is was not given
\* away before and has a bot.
Kept(c) ==
    IF channel[c].owner = None THEN channel[c].bot = None
    ELSE channel[c].used /\ channel[c].bot \in Bots

StoreTypeOK ==
    /\ member \in [Users -> {"active", "disabled", "gone"}]
    /\ revision \in [Users -> Nat]
    /\ channel \in [Channels -> Channel]

ChannelsInv == StoreTypeOK /\ (\A c \in Channels : Kept(c)) /\ QQBotsUnique

\* What a step may do to the settings of a user, seen from a dialog that looked
\* at them: they are what they were, or their revision tells, or nobody is left
\* to bind anything for.
SettingsTell ==
    \A u \in Users :
        /\ revision'[u] >= revision[u]
        /\ member[u] = "gone" => member'[u] = "gone"
        /\ revision'[u] = revision[u] /\ member'[u] # "gone" => Config(u)' = Config(u)

\* What a step that is not a monitor's may do to a channel: it never changes
\* providers, and its connection begins without a state that tells of an old one.
Beginnings == {"", "connecting", "waiting"}

KeepsProvider(c) ==
    /\ channel[c].used => /\ channel'[c].used
                          /\ channel'[c].bot # None => SameProvider(channel[c].bot, channel'[c].bot) /\ channel[c].bot # None
    /\ \/ channel'[c].owner = None
       \/ channel'[c].state \in Beginnings
       \/ /\ channel'[c].owner = channel[c].owner /\ channel'[c].bot = channel[c].bot
          /\ channel'[c].secret = channel[c].secret /\ channel'[c].state = channel[c].state

-----------------------------------------------------------------------------
(* The dialogs. *)

\* A dialog that looked at settings of this revision knows them as they are.
Knows(d) ==
    Step(d) # "new" =>
        /\ Owner(d) \in Users
        /\ dialog[d].revision <= revision[Owner(d)]
        /\ dialog[d].revision = revision[Owner(d)] /\ member[Owner(d)] # "gone" =>
             dialog[d].seen = Config(Owner(d))

\* Who comes back from the provider brings a bot.
Brings(d) == Step(d) = "returning" => dialog[d].bot \in Bots

Underway(d) == Step(d) \notin {"new", "checked"}

SessionsTypeOK ==
    /\ dialog \in [Dialogs -> Dialog]
    /\ session \in [Users -> Dialogs \union {None}]
    /\ revoked \subseteq Dialogs

SessionsInv ==
    /\ SessionsTypeOK
    /\ \A d \in Dialogs : Knows(d) /\ Brings(d)
    /\ \A u \in Users : session[u] # None => Owner(session[u]) = u /\ Underway(session[u])
    /\ \A d \in revoked : Underway(d) /\ ~Wanted(d)

-----------------------------------------------------------------------------
(* The monitors. *)

WorkersTypeOK ==
    /\ worker \in [Workers -> Worker]
    /\ monitor \in [Channels -> Workers \union {None}]
    /\ snapshot \in [Monitors -> SUBSET ((Channels \union {None}) \X Channel)]

\* A goroutine is of one provider, and the QQ monitor loses sight of none that runs.
InPlace(w) ==
    /\ worker[w].step \in {"polling", "answered"} => worker[w].bot \notin QQBots
    /\ ~Ended(w) => worker[w].channel \in Channels
    /\ worker[w].step \notin {"polling", "answered", "done"} =>
         worker[w].bot \in QQBots /\ monitor[worker[w].channel] = w

\* Channels a monitor has to do with: it connects them or has read that it should.
Sees(m, c) == c \in Mine(m) \union WantedBy(m)

\* A monitor has to do with channels of its provider only.
OfProvider(m, c) ==
    /\ channel[c].used
    /\ channel[c].bot # None => MonitorOf(channel[c].bot) = m

\* The state of a channel whose bot is online.
Online(w) ==
    LET c == worker[w].channel
    IN  worker[w].step = "online" /\ channel[c].owner = worker[w].owner /\ For(w, channel[c].bot, channel[c].secret)
            => channel[c].state \notin {"disconnected", "reconnecting", "error"}

WorkersInv ==
    /\ WorkersTypeOK
    /\ \A w \in Workers : InPlace(w)
    /\ \A c \in Channels : monitor[c] # None => worker[monitor[c]].channel = c
    /\ \A m \in Monitors : \A pair \in snapshot[m] :
          pair[1] # None => MonitorOf(pair[2].bot) = m
    /\ \A m \in Monitors, c \in Channels : Sees(m, c) => OfProvider(m, c)
    /\ \A c \in Channels : ~(Sees("qq", c) /\ Sees("weixin", c))
    /\ \A w \in Workers : Online(w)

-----------------------------------------------------------------------------
(* Proofs about the store. *)

LEMMA InitChannels == BindingsInit => ChannelsInv
<1> SUFFICES ASSUME BindingsInit PROVE ChannelsInv
  OBVIOUS
<1>1. NoChannel \in Channel /\ NoChannel.owner = None /\ NoChannel.bot = None
  BY DEF NoChannel, Channel, States
<1>2. \A c \in Channels : channel[c] = NoChannel
  BY DEF BindingsInit
<1>3. StoreTypeOK
  BY <1>1 DEF BindingsInit, StoreTypeOK
<1>4. QQBotsUnique
  BY <1>1, <1>2 DEF QQBotsUnique, Existing
<1> QED
  BY <1>1, <1>2, <1>3, <1>4 DEF ChannelsInv, Kept

\* No channel gets another bot.
LEMMA StillUnique ==
    ASSUME ChannelsInv,
           \A c \in Channels : channel'[c].owner # None =>
              channel[c].owner # None /\ channel'[c].bot = channel[c].bot
    PROVE  QQBotsUnique'
<1> SUFFICES ASSUME NEW c \in Channels, NEW other \in Channels, c # other, channel'[c].owner # None,
                    channel'[other].owner # None, channel'[c].bot \in QQBots
             PROVE  channel'[c].bot # channel'[other].bot
  BY DEF QQBotsUnique, Existing, IsQQ
<1> QED
  BY DEF ChannelsInv, QQBotsUnique, Existing, IsQQ

\* A channel gets a bot: it is a new one or was the user's and of that provider.
\* The bot is nowhere else when it is a QQ bot.
LEMMA BotGiven ==
    ASSUME ChannelsInv, NEW u \in Users, NEW c \in Channels, NEW rec \in Channel,
           rec.owner = u, rec.used = TRUE, rec.bot \in Bots,
           \A other \in Channels \ {c} :
              \/ channel'[other] = channel[other]
              \/ channel'[other] = [NoChannel EXCEPT !.used = TRUE],
           channel' \in [Channels -> Channel], channel'[c] = rec,
           rec.bot \in QQBots => \A other \in Channels \ {c} :
              channel'[other].owner # None => channel'[other].bot # rec.bot,
           UNCHANGED member, revision' \in [Users -> Nat]
    PROVE  ChannelsInv'
<1>1. \A other \in Channels \ {c} : channel'[other].owner # None => channel'[other] = channel[other]
  BY DEF NoChannel
<1>2. \A other \in Channels : Kept(other)'
  <2> SUFFICES ASSUME NEW other \in Channels PROVE Kept(other)'
    OBVIOUS
  <2>1. None \notin Users
    BY BindingsAssumption DEF BindingsAssumption
  <2>2. CASE other = c
    BY <2>1, <2>2 DEF Kept
  <2>3. CASE other # c
    BY <1>1, <2>3, ZenonT(40) DEF Kept, ChannelsInv, NoChannel
  <2> QED
    BY <2>2, <2>3
<1>3. QQBotsUnique'
  <2> SUFFICES ASSUME NEW one \in Channels, NEW other \in Channels, one # other,
                      channel'[one].owner # None, channel'[other].owner # None, channel'[one].bot \in QQBots
               PROVE  channel'[one].bot # channel'[other].bot
    BY DEF QQBotsUnique, Existing, IsQQ
  <2>1. CASE one = c
    BY <2>1
  <2>2. CASE other = c
    BY <2>2
  <2>3. CASE one # c /\ other # c
    BY <1>1, <2>3 DEF ChannelsInv, QQBotsUnique, Existing, IsQQ
  <2> QED
    BY <2>1, <2>2, <2>3
<1> QED
  BY <1>2, <1>3 DEF ChannelsInv, StoreTypeOK

\* The settings of the others stay, when one user's channels change.
LEMMA OthersStay ==
    ASSUME ChannelsInv, NEW u \in Users, channel' \in [Channels -> Channel],
           \A c \in Channels : \/ channel'[c] = channel[c]
                               \/ channel[c].owner \in {u, None} /\ channel'[c].owner \in {u, None},
           NEW v \in Users, v # u
    PROVE  Config(v)' = Config(v)
<1>1. v # None
  BY BindingsAssumption DEF BindingsAssumption
<1>2. \A c \in Channels : channel[c].owner = v \/ channel'[c].owner = v => channel'[c] = channel[c]
  BY <1>1
<1>3. Owned(v)' = Owned(v) /\ \A c \in Owned(v) : channel'[c] = channel[c]
  BY <1>2 DEF Owned
<1>4. Config(v)' = {<<c, channel'[c].bot, channel'[c].secret, channel'[c].enabled>> : c \in Owned(v)}
  BY <1>3 DEF Config
<1> QED
  BY <1>3, <1>4 DEF Config

LEMMA RevisedTells ==
    ASSUME ChannelsInv, NEW u \in Users, channel' \in [Channels -> Channel],
           \A c \in Channels : \/ channel'[c] = channel[c]
                               \/ channel[c].owner \in {u, None} /\ channel'[c].owner \in {u, None},
           revision' = [revision EXCEPT ![u] = revision[u] + 1], UNCHANGED member
    PROVE  SettingsTell
<1>1. \A v \in Users : revision[v] \in Nat /\ revision'[v] = IF v = u THEN revision[v] + 1 ELSE revision[v]
  BY DEF ChannelsInv, StoreTypeOK
<1>2. \A v \in Users : v # u => Config(v)' = Config(v)
  BY OthersStay
<1> SUFFICES ASSUME NEW v \in Users
             PROVE  /\ revision'[v] >= revision[v]
                    /\ member[v] = "gone" => member'[v] = "gone"
                    /\ revision'[v] = revision[v] /\ member'[v] # "gone" => Config(v)' = Config(v)
  BY DEF SettingsTell
<1>3. CASE v = u
  BY <1>1, <1>3
<1>4. CASE v # u
  BY <1>1, <1>2, <1>4
<1> QED
  BY <1>3, <1>4

LEMMA BindStores ==
    ASSUME ChannelsInv, NEW u \in Users, NEW target \in Channels \union {None}, NEW seen, NEW bot \in Bots,
           NEW secret \in Secrets \union {None}, NEW enabled \in BOOLEAN, CanBind(u, target, seen, bot),
           Bind(u, target, bot, secret, enabled), UNCHANGED member
    PROVE  ChannelsInv' /\ SettingsTell /\ \A c \in Channels : KeepsProvider(c)
<1>1. None \notin Channels /\ None \notin Users /\ None \notin Bots
  BY BindingsAssumption DEF BindingsAssumption
<1>2. PICK c \in IF target = None THEN {free \in Channels : ~channel[free].used} ELSE {target} :
        /\ channel' = [channel EXCEPT ![c] =
                          [owner |-> u, used |-> TRUE, bot |-> bot, secret |-> secret, enabled |-> enabled,
                           state |-> IF bot \in QQBots THEN "connecting" ELSE "waiting"]]
        /\ revision' = [revision EXCEPT ![u] = revision[u] + 1]
  BY DEF Bind
<1>3. PICK rec : rec = [owner |-> u, used |-> TRUE, bot |-> bot, secret |-> secret, enabled |-> enabled,
                        state |-> IF bot \in QQBots THEN "connecting" ELSE "waiting"]
  OBVIOUS
<1>4. /\ rec \in Channel /\ rec.owner = u /\ rec.used = TRUE /\ rec.bot = bot
      /\ rec.state \in Beginnings
  BY <1>3 DEF Channel, States, Beginnings
<1>5. c \in Channels
  BY <1>2
<1>6. /\ channel[c].owner \in {u, None}
      /\ channel[c].used => channel[c].bot # None /\ SameProvider(channel[c].bot, bot)
      /\ ~\E other \in Existing \ {c} : channel[other].bot = bot
  <2>1. CASE target = None
    <3>1. ~channel[c].used /\ channel[c].owner = None /\ c \notin Existing
      BY <1>2, <2>1 DEF ChannelsInv, Kept, Existing
    <3>2. ~\E other \in Existing : channel[other].bot = bot
      BY <1>1, <2>1 DEF CanBind, Elsewhere, Existing
    <3> QED
      BY <3>1, <3>2
  <2>2. CASE target # None
    <3>1. c = target /\ channel[c].owner = u /\ SameProvider(channel[c].bot, bot)
      BY <1>2, <2>2 DEF CanBind, Owned
    <3>2. channel[c].bot # None
      BY <1>1, <1>5, <3>1 DEF ChannelsInv, Kept
    <3> QED
      BY <3>1, <3>2 DEF CanBind, Elsewhere
  <2> QED
    BY <2>1, <2>2
<1>7. /\ channel' \in [Channels -> Channel] /\ channel'[c] = rec
      /\ \A other \in Channels \ {c} : channel'[other] = channel[other]
  BY <1>2, <1>3, <1>4, <1>5 DEF ChannelsInv, StoreTypeOK
<1>8. revision' \in [Users -> Nat]
  BY <1>2 DEF ChannelsInv, StoreTypeOK
<1>9. ChannelsInv'
  <2>1. \A other \in Channels \ {c} : channel'[other].owner # None => channel'[other].bot # rec.bot
    BY <1>4, <1>6, <1>7 DEF Existing
  <2> QED
    BY <1>4, <1>5, <1>7, <1>8, <2>1, BotGiven
<1>10. SettingsTell
  BY <1>2, <1>4, <1>5, <1>6, <1>7, RevisedTells
<1>11. \A other \in Channels : KeepsProvider(other)
  BY <1>4, <1>6, <1>7 DEF KeepsProvider, SameProvider
<1> QED
  BY <1>9, <1>10, <1>11

LEMMA UpdateStores ==
    ASSUME ChannelsInv, NEW u \in Users, UpdatePush(u), UNCHANGED member
    PROVE  ChannelsInv' /\ SettingsTell /\ \A c \in Channels : KeepsProvider(c)
<1>1. None \notin Channels /\ None \notin Users /\ None \notin Bots
  BY BindingsAssumption DEF BindingsAssumption
<1> DEFINE Left(keep) == [i \in Channels |-> IF i \in Owned(u) \ keep
                                               THEN [NoChannel EXCEPT !.used = TRUE] ELSE channel[i]]
           Edits(keep, c, bot, secret, enabled) ==
             /\ Cardinality(keep \union ({c} \ {None})) <= MaxChannels
             /\ IF c = None THEN channel' = Left(keep)
                ELSE /\ c \in keep => SameProvider(channel[c].bot, bot)
                     /\ enabled => secret # None
                     /\ bot \in QQBots => ~\E other \in Channels \ {c} : Left(keep)[other].bot = bot
                     /\ channel' = [Left(keep) EXCEPT ![c] =
                                       IF c \in keep THEN Edited(c, bot, secret, enabled)
                                       ELSE Added(u, bot, secret, enabled)]
<1>2. \E keep \in SUBSET Owned(u) :
         \E c \in keep \union {new \in Channels : ~channel[new].used} \union {None} :
         \E bot \in Bots, secret \in Secrets \union {None}, enabled \in BOOLEAN :
            Edits(keep, c, bot, secret, enabled)
  BY Zenon DEF UpdatePush
<1> HIDE DEF Edits
<1>3. PICK keep \in SUBSET Owned(u) :
        \E c \in keep \union {new \in Channels : ~channel[new].used} \union {None} :
        \E bot \in Bots, secret \in Secrets \union {None}, enabled \in BOOLEAN :
           Edits(keep, c, bot, secret, enabled)
  BY <1>2
<1>4. PICK c \in keep \union {new \in Channels : ~channel[new].used} \union {None},
           bot \in Bots, secret \in Secrets \union {None}, enabled \in BOOLEAN :
        Edits(keep, c, bot, secret, enabled)
  BY <1>3
<1>5. /\ c = None => channel' = Left(keep)
      /\ c # None => /\ (c \in keep => SameProvider(channel[c].bot, bot))
                     /\ (bot \in QQBots => ~\E other \in Channels \ {c} : Left(keep)[other].bot = bot)
                     /\ channel' = [Left(keep) EXCEPT ![c] =
                                       IF c \in keep THEN Edited(c, bot, secret, enabled)
                                       ELSE Added(u, bot, secret, enabled)]
  BY <1>4 DEF Edits
<1> HIDE DEF Left
<1>6. PICK left : left = Left(keep)
  OBVIOUS
<1>7. PICK none : none = [NoChannel EXCEPT !.used = TRUE]
  OBVIOUS
<1>8. /\ none \in Channel /\ none.owner = None /\ none.bot = None /\ none.used = TRUE
  BY <1>7 DEF NoChannel, Channel, States
<1>9. /\ left \in [Channels -> Channel]
      /\ \A i \in Channels : \/ left[i] = channel[i]
                             \/ left[i] = none /\ channel[i].owner = u
      /\ \A i \in keep : left[i] = channel[i]
  BY <1>6, <1>7, <1>8 DEF Left, Owned, ChannelsInv, StoreTypeOK
<1>10. revision' = [revision EXCEPT ![u] = revision[u] + 1] /\ revision' \in [Users -> Nat]
  BY DEF UpdatePush, ChannelsInv, StoreTypeOK
<1>11. CASE c = None
  <2>1. channel' = left
    BY <1>5, <1>6, <1>11
  <2>2. \A i \in Channels : \/ channel'[i] = channel[i]
                            \/ channel'[i] = none /\ channel[i].owner = u
    BY <1>9, <2>1
  <2>3. \A i \in Channels : channel'[i].owner # None => channel'[i] = channel[i]
    BY <1>8, <2>2
  <2>4. \A i \in Channels : Kept(i)'
    BY <1>8, <2>2 DEF Kept, ChannelsInv
  <2>5. QQBotsUnique'
    BY <2>3, StillUnique
  <2>6. ChannelsInv'
    BY <1>9, <1>10, <2>1, <2>4, <2>5 DEF ChannelsInv, StoreTypeOK
  <2>7. SettingsTell
    BY <1>8, <1>9, <1>10, <2>1, <2>2, RevisedTells
  <2>8. \A i \in Channels : KeepsProvider(i)
    BY <1>8, <2>2 DEF KeepsProvider, SameProvider
  <2> QED
    BY <2>6, <2>7, <2>8
<1>12. CASE c # None
  <2>1. c \in Channels /\ (c \in keep => channel[c].owner = u /\ SameProvider(channel[c].bot, bot))
    BY <1>4, <1>5, <1>12 DEF Owned
  <2>2. PICK rec : rec = IF c \in keep THEN Edited(c, bot, secret, enabled) ELSE Added(u, bot, secret, enabled)
    OBVIOUS
  <2>3. /\ channel' = [left EXCEPT ![c] = rec]
        /\ bot \in QQBots => \A other \in Channels \ {c} : left[other].bot # bot
    BY <1>5, <1>6, <1>12, <2>2
  <2>4. channel[c] \in Channel /\ Kept(c)
    BY <2>1 DEF ChannelsInv, StoreTypeOK
  <2>5. /\ rec \in Channel /\ rec.owner = u /\ rec.used = TRUE /\ rec.bot = bot
        /\ \/ rec.state \in Beginnings
           \/ /\ c \in keep /\ bot = channel[c].bot
              /\ rec.secret = channel[c].secret /\ rec.state = channel[c].state
    <3>1. CASE c \in keep
      <4>1. PICK state : state = IF <<bot, secret>> = <<channel[c].bot, channel[c].secret>>
                                   THEN channel[c].state ELSE ""
        OBVIOUS
      <4>2. state \in States
        BY <2>4, <4>1 DEF Channel, States
      <4>3. rec = [channel[c] EXCEPT !.bot = bot, !.secret = secret, !.enabled = enabled, !.state = state]
        BY <2>2, <3>1, <4>1 DEF Edited
      <4>4. channel[c].used
        BY <1>1, <2>1, <2>4, <3>1 DEF Kept
      <4>5. /\ rec \in Channel /\ rec.owner = channel[c].owner /\ rec.used = channel[c].used /\ rec.bot = bot
            /\ rec.secret = secret /\ rec.state = state
        BY <2>4, <4>2, <4>3 DEF Channel
      <4>6. channel[c].used = TRUE
        BY <2>4, <4>4 DEF Channel
      <4> QED
        BY <2>1, <3>1, <4>1, <4>5, <4>6 DEF Beginnings
    <3>2. CASE c \notin keep
      <4>1. rec = [owner |-> u, used |-> TRUE, bot |-> bot, secret |-> secret, enabled |-> enabled, state |-> ""]
        BY <2>2, <3>2 DEF Added
      <4> QED
        BY <4>1 DEF Channel, States, Beginnings
    <3> QED
      BY <3>1, <3>2
  <2>6. /\ channel' \in [Channels -> Channel] /\ channel'[c] = rec
        /\ \A other \in Channels \ {c} : channel'[other] = left[other]
    BY <1>9, <2>1, <2>3, <2>5
  <2>7. /\ channel[c].owner \in {u, None}
        /\ channel[c].used => c \in keep
    BY <1>4, <1>12, <2>1, <2>4 DEF Kept
  <2>8. \A i \in Channels \ {c} : channel'[i] = channel[i] \/ (channel'[i] = none /\ channel[i].owner = u)
    BY <1>9, <2>6
  <2>9. ChannelsInv'
    BY <1>7, <1>10, <2>1, <2>3, <2>5, <2>6, <2>8, BotGiven
  <2>10. \A i \in Channels : \/ channel'[i] = channel[i]
                             \/ channel[i].owner \in {u, None} /\ channel'[i].owner \in {u, None}
    BY <1>8, <2>1, <2>5, <2>6, <2>7, <2>8
  <2>11. SettingsTell
    BY <1>10, <2>6, <2>10, RevisedTells
  <2>12. \A i \in Channels : KeepsProvider(i)
    <3> SUFFICES ASSUME NEW i \in Channels PROVE KeepsProvider(i)
      OBVIOUS
    <3>1. CASE i = c
      <4>1. channel[c].used => channel[c].bot # None /\ channel[c].owner = u
        BY <1>1, <2>1, <2>4, <2>7 DEF Kept
      <4> QED
        BY <2>1, <2>5, <2>6, <2>7, <3>1, <4>1 DEF KeepsProvider
    <3>2. CASE i # c
      BY <1>8, <2>8, <3>2 DEF KeepsProvider, SameProvider
    <3> QED
      BY <3>1, <3>2
  <2> QED
    BY <2>9, <2>11, <2>12
<1> QED
  BY <1>11, <1>12

\* A user is deleted, with the channels.
LEMMA DeleteStores ==
    ASSUME ChannelsInv, NEW u \in Users, member' = [member EXCEPT ![u] = "gone"],
           channel' = [c \in Channels |-> IF channel[c].owner = u THEN [NoChannel EXCEPT !.used = TRUE]
                                          ELSE channel[c]],
           UNCHANGED revision
    PROVE  ChannelsInv' /\ SettingsTell /\ \A c \in Channels : KeepsProvider(c)
<1>1. PICK none : none = [NoChannel EXCEPT !.used = TRUE]
  OBVIOUS
<1>2. /\ none \in Channel /\ none.owner = None /\ none.bot = None /\ none.used = TRUE
  BY <1>1 DEF NoChannel, Channel, States
<1>3. \A c \in Channels : channel'[c] = IF channel[c].owner = u THEN none ELSE channel[c]
  BY <1>1
<1>4. StoreTypeOK'
  BY <1>1, <1>2, <1>3 DEF ChannelsInv, StoreTypeOK
<1>5. \A c \in Channels : channel'[c].owner # None => channel'[c] = channel[c]
  BY <1>2, <1>3
<1>6. \A c \in Channels : Kept(c)'
  BY <1>2, <1>3 DEF Kept, ChannelsInv
<1>7. QQBotsUnique'
  BY <1>5, StillUnique
<1>8. \A v \in Users : v # u => Config(v)' = Config(v)
  BY <1>2, <1>3, <1>4, OthersStay DEF StoreTypeOK
<1>9. \A v \in Users : /\ revision[v] \in Nat
                       /\ member'[v] = IF v = u THEN "gone" ELSE member[v]
  BY DEF ChannelsInv, StoreTypeOK
<1>10. SettingsTell
  BY <1>8, <1>9 DEF SettingsTell
<1>11. \A c \in Channels : KeepsProvider(c)
  BY <1>2, <1>3 DEF KeepsProvider, SameProvider
<1> QED
  BY <1>4, <1>6, <1>7, <1>10, <1>11 DEF ChannelsInv

\* Only states change: what the monitors write.
LEMMA StatesStore ==
    ASSUME ChannelsInv, channel' \in [Channels -> Channel],
           \A c \in Channels : /\ channel'[c].owner = channel[c].owner /\ channel'[c].used = channel[c].used
                               /\ channel'[c].bot = channel[c].bot /\ channel'[c].secret = channel[c].secret
                               /\ channel'[c].enabled = channel[c].enabled,
           UNCHANGED revision, member' \in [Users -> {"active", "disabled", "gone"}],
           \A u \in Users : member[u] = "gone" => member'[u] = "gone"
    PROVE  ChannelsInv' /\ SettingsTell
<1>1. ChannelsInv'
  <2>1. \A c \in Channels : Kept(c)'
    BY DEF ChannelsInv, Kept
  <2> QED
    BY <2>1, StillUnique DEF ChannelsInv, StoreTypeOK
<1>2. \A u \in Users : Config(u)' = Config(u)
  <2> SUFFICES ASSUME NEW u \in Users PROVE Config(u)' = Config(u)
    OBVIOUS
  <2>1. Owned(u)' = Owned(u) /\ Owned(u) \subseteq Channels
    BY DEF Owned
  <2>2. Config(u)' = {<<c, channel'[c].bot, channel'[c].secret, channel'[c].enabled>> : c \in Owned(u)}
    BY <2>1 DEF Config
  <2>3. \A c \in Owned(u) : <<c, channel'[c].bot, channel'[c].secret, channel'[c].enabled>>
                             = <<c, channel[c].bot, channel[c].secret, channel[c].enabled>>
    BY <2>1
  <2> QED
    BY <2>2, <2>3 DEF Config
<1> QED
  BY <1>1, <1>2 DEF SettingsTell, ChannelsInv, StoreTypeOK

-----------------------------------------------------------------------------
(* Proofs about the dialogs. *)

\* What a step may do to a dialog: it keeps its user and what it looked at, comes
\* to life once only, and binds only while that is wanted.
Follows(d) ==
    /\ Step(d) # "new" => /\ dialog'[d].step # "new"
                          /\ dialog'[d].user = dialog[d].user
                          /\ dialog'[d].revision = dialog[d].revision
                          /\ dialog'[d].seen = dialog[d].seen
    /\ Underway(d) => dialog'[d].step # "checked"
    /\ dialog'[d].step = "returning" => dialog'[d].bot \in Bots
    /\ dialog'[d].live => dialog[d].live \/ Step(d) = "checked"
    /\ Step(d) = "new" /\ dialog'[d].step # "new" => Knows(d)'
    /\ dialog'[d].bound /\ ~dialog[d].bound =>
          d \notin revoked /\ dialog[d].seen = Config(Owner(d))

\* The map of sessions forgets dialogs, or takes up one that was checked.
SessionsTurn ==
    \A u \in Users : \/ session'[u] \in {session[u], None}
                     \/ /\ session'[u] \in Dialogs
                        /\ dialog[session'[u]].step = "checked" /\ dialog[session'[u]].user = u
                        /\ dialog'[session'[u]].step \notin {"new", "checked"}

DialogsGoOn ==
    /\ SessionsTypeOK'
    /\ \A d \in Dialogs : Follows(d)
    /\ SessionsTurn
    /\ \A d \in revoked' \ revoked : dialog'[d].step \notin {"new", "checked"} /\ ~dialog'[d].live

LEMMA InitSessions == BindingsInit => SessionsInv
<1> SUFFICES ASSUME BindingsInit PROVE SessionsInv
  OBVIOUS
<1>1. NewDialog \in Dialog /\ NewDialog.step = "new"
  BY DEF NewDialog, Dialog
<1>2. SessionsTypeOK
  BY <1>1 DEF BindingsInit, SessionsTypeOK
<1>3. /\ \A d \in Dialogs : dialog[d].step = "new"
      /\ \A u \in Users : session[u] = None
      /\ revoked = {}
  BY <1>1 DEF BindingsInit
<1> QED
  BY <1>2, <1>3 DEF SessionsInv, Knows, Brings, Step

LEMMA SessionsKept ==
    ASSUME ChannelsInv, ChannelsInv', SessionsInv, SettingsTell, DialogsGoOn
    PROVE  SessionsInv'
<1>1. None \notin Dialogs /\ SessionsTypeOK /\ SessionsTypeOK'
  BY BindingsAssumption DEF BindingsAssumption, SessionsInv, DialogsGoOn
<1>2. ASSUME NEW d \in Dialogs PROVE Knows(d)'
  <2>1. CASE Step(d) = "new"
    BY <2>1 DEF DialogsGoOn, Follows, Knows, Step
  <2>2. CASE Step(d) # "new"
    <3>1. /\ dialog'[d].user = dialog[d].user /\ dialog'[d].revision = dialog[d].revision
          /\ dialog'[d].seen = dialog[d].seen
      BY <2>2 DEF DialogsGoOn, Follows
    <3>2. PICK u \in Users : u = dialog[d].user
      BY <2>2 DEF SessionsInv, Knows, Owner
    <3>3. /\ dialog[d].revision <= revision[u]
          /\ dialog[d].revision = revision[u] /\ member[u] # "gone" => dialog[d].seen = Config(u)
      BY <2>2, <3>2 DEF SessionsInv, Knows, Owner
    <3>4. /\ revision'[u] >= revision[u]
          /\ member[u] = "gone" => member'[u] = "gone"
          /\ revision'[u] = revision[u] /\ member'[u] # "gone" => Config(u)' = Config(u)
      BY DEF SettingsTell
    <3>5. revision[u] \in Nat /\ revision'[u] \in Nat /\ dialog[d].revision \in Nat
      BY <1>1 DEF ChannelsInv, StoreTypeOK, SessionsTypeOK, Dialog
    <3>6. /\ dialog[d].revision <= revision'[u]
          /\ dialog[d].revision = revision'[u] /\ member'[u] # "gone" => dialog[d].seen = Config(u)'
      BY <3>3, <3>4, <3>5
    <3>7. dialog'[d].user = u /\ u \in Users
      BY <3>1, <3>2
    <3>8. (Owner(d) = u)'
      BY <3>7 DEF Owner
    <3> QED
      BY <3>1, <3>6, <3>8 DEF Knows
  <2> QED
    BY <2>1, <2>2
<1>3. ASSUME NEW u \in Users, session'[u] # None
      PROVE  dialog'[session'[u]].user = u /\ dialog'[session'[u]].step \notin {"new", "checked"}
  <2>1. PICK d \in Dialogs : d = session'[u]
    BY <1>1, <1>3 DEF SessionsTypeOK
  <2>2. CASE session[u] = d
    <3>1. dialog[d].user = u /\ Underway(d)
      BY <1>1, <2>2 DEF SessionsInv, Owner
    <3> QED
      BY <2>1, <3>1 DEF DialogsGoOn, Follows, Underway, Step
  <2>3. CASE session[u] # d
    <3>1. dialog[d].step = "checked" /\ dialog[d].user = u /\ dialog'[d].step \notin {"new", "checked"}
      BY <1>1, <2>1, <2>3 DEF DialogsGoOn, SessionsTurn
    <3> QED
      BY <2>1, <3>1 DEF DialogsGoOn, Follows, Step
  <2> QED
    BY <2>2, <2>3
<1>4. ASSUME NEW d \in revoked' PROVE (Underway(d) /\ ~Wanted(d))'
  <2>1. d \in Dialogs /\ Follows(d)
    BY <1>1 DEF SessionsTypeOK, DialogsGoOn
  <2>2. CASE d \notin revoked
    BY <2>2 DEF DialogsGoOn, Underway, Step, Wanted
  <2>3. CASE d \in revoked
    <3>1. Underway(d) /\ ~Wanted(d)
      BY <2>3 DEF SessionsInv
    <3>2. PICK u \in Users : u = dialog[d].user
      BY <2>1, <3>1 DEF SessionsInv, Knows, Owner, Underway
    <3>3. dialog'[d].user = u /\ dialog'[d].step \notin {"new", "checked"} /\ (dialog'[d].live => dialog[d].live)
      BY <2>1, <3>1, <3>2 DEF Follows, Underway
    <3>4. session'[u] = d => session[u] = d
      BY <1>1, <2>1, <3>1 DEF DialogsGoOn, SessionsTurn, Underway, Step
    <3>5. ~(session[u] = d /\ dialog[d].live)
      BY <3>1, <3>2 DEF Wanted, Current, Owner
    <3>6. ~(session'[dialog'[d].user] = d /\ dialog'[d].live)
      BY <3>3, <3>4, <3>5
    <3> QED
      BY <3>3, <3>6 DEF Underway, Step, Wanted, Current, Owner
  <2> QED
    BY <2>2, <2>3
<1>5. \A u \in Users : (session[u] # None => Owner(session[u]) = u /\ Underway(session[u]))'
  BY <1>3 DEF Owner, Underway, Step
<1>6. \A d \in Dialogs : Brings(d)'
  BY DEF DialogsGoOn, Follows, Brings, Step
<1> QED
  BY <1>1, <1>2, <1>4, <1>5, <1>6 DEF SessionsInv

\* No dialog does anything.
LEMMA DialogsRest ==
    ASSUME SessionsInv, UNCHANGED <<dialog, session, revoked>>
    PROVE  DialogsGoOn
<1>1. SessionsTypeOK'
  BY DEF SessionsInv, SessionsTypeOK
<1>2. \A d \in Dialogs : Follows(d)
  BY DEF Follows, Underway, Step, SessionsInv, Brings
<1> QED
  BY <1>1, <1>2 DEF DialogsGoOn, SessionsTurn

\* One dialog that was begun goes on.
LEMMA OneGoesOn ==
    ASSUME SessionsInv, NEW d \in Dialogs, NEW rec \in Dialog, dialog' = [dialog EXCEPT ![d] = rec],
           Step(d) # "new", rec.step # "new", Underway(d) => rec.step # "checked",
           rec.user = dialog[d].user, rec.revision = dialog[d].revision, rec.seen = dialog[d].seen,
           rec.live => dialog[d].live, rec.step = "returning" => rec.bot \in Bots,
           rec.bound /\ ~dialog[d].bound => d \notin revoked /\ dialog[d].seen = Config(Owner(d)),
           UNCHANGED session,
           \/ UNCHANGED revoked
           \/ revoked' = revoked \union {d} /\ ~rec.live /\ rec.step # "checked"
    PROVE  DialogsGoOn
<1>1. dialog'[d] = rec /\ \A e \in Dialogs \ {d} : dialog'[e] = dialog[e]
  BY DEF SessionsInv, SessionsTypeOK
<1>2. SessionsTypeOK'
  BY DEF SessionsInv, SessionsTypeOK
<1>3. ASSUME NEW e \in Dialogs PROVE Follows(e)
  <2>1. CASE e = d
    BY <1>1, <2>1 DEF Follows
  <2>2. CASE e # d
    BY <1>1, <2>2 DEF Follows, Underway, Step, SessionsInv, Brings
  <2> QED
    BY <2>1, <2>2
<1>4. SessionsTurn
  BY DEF SessionsTurn
<1>5. \A e \in revoked' \ revoked : dialog'[e].step \notin {"new", "checked"} /\ ~dialog'[e].live
  BY <1>1
<1> QED
  BY <1>2, <1>3, <1>4, <1>5 DEF DialogsGoOn

LEMMA StartGoesOn ==
    ASSUME ChannelsInv, SessionsInv, NEW u \in Users, NEW d \in Dialogs,
           NEW target \in Channels \union {None}, NEW qq \in BOOLEAN, PushQRStart(u, d, target, qq)
    PROVE  DialogsGoOn
<1>1. PICK rec : rec = [dialog[d] EXCEPT !.step = "checked", !.user = u, !.target = target, !.qq = qq,
                                        !.revision = revision[u], !.seen = Config(u)]
  OBVIOUS
<1>2. dialog[d] \in Dialog /\ revision[u] \in Nat
  BY DEF ChannelsInv, StoreTypeOK, SessionsInv, SessionsTypeOK
<1>3. Config(u) \in SUBSET (Channels \X (Bots \union {None}) \X (Secrets \union {None}) \X BOOLEAN)
  <2>1. \A c \in Owned(u) : <<c, channel[c].bot, channel[c].secret, channel[c].enabled>>
                              \in Channels \X (Bots \union {None}) \X (Secrets \union {None}) \X BOOLEAN
    BY DEF Owned, ChannelsInv, StoreTypeOK, Channel
  <2> QED
    BY <2>1 DEF Config
<1>4. /\ rec \in Dialog /\ rec.step = "checked" /\ rec.user = u /\ rec.revision = revision[u]
      /\ rec.seen = Config(u) /\ rec.live = dialog[d].live /\ rec.bound = dialog[d].bound
  BY <1>1, <1>2, <1>3 DEF Dialog
<1>5. /\ dialog' = [dialog EXCEPT ![d] = rec] /\ Step(d) = "new"
      /\ UNCHANGED <<member, revision, channel, session, revoked>>
  BY <1>1 DEF PushQRStart
<1>6. dialog'[d] = rec /\ \A e \in Dialogs \ {d} : dialog'[e] = dialog[e]
  BY <1>5 DEF SessionsInv, SessionsTypeOK
<1>7. Config(u)' = Config(u)
  BY <1>5 DEF Config, Owned
<1>8. Knows(d)'
  <2>1. (Owner(d) = u)' /\ (dialog[d].revision = revision[u])' /\ (dialog[d].seen = Config(u))'
    BY <1>4, <1>5, <1>6, <1>7 DEF Owner
  <2>2. (dialog[d].revision <= revision[u])'
    BY <1>2, <1>5, <2>1
  <2> QED
    BY <2>1, <2>2 DEF Knows
<1>9. ASSUME NEW e \in Dialogs PROVE Follows(e)
  <2>1. CASE e = d
    BY <1>4, <1>5, <1>6, <1>8, <2>1 DEF Follows, Underway
  <2>2. CASE e # d
    BY <1>6, <2>2 DEF Follows, Underway, Step, SessionsInv, Brings
  <2> QED
    BY <2>1, <2>2
<1>10. SessionsTypeOK'
  BY <1>4, <1>5 DEF SessionsInv, SessionsTypeOK
<1> QED
  BY <1>5, <1>9, <1>10 DEF DialogsGoOn, SessionsTurn

LEMMA BindingStartGoesOn ==
    ASSUME SessionsInv, NEW d \in Dialogs, BindingStart(d)
    PROVE  DialogsGoOn
<1> DEFINE u == Owner(d)
           old == session[u]
           left == [v \in Users |-> IF session[v] # None /\ dialog[session[v]].expired THEN None
                                    ELSE session[v]]
           full == Cardinality({v \in Users : left[v] # None}) >= MaxSessions /\ left[u] = None
           replaced == IF old = None THEN dialog ELSE [dialog EXCEPT ![old].live = FALSE]
<1>1. /\ dialog[d] \in Dialog /\ dialog[d].step = "checked" /\ u \in Users /\ old \in Dialogs \union {None}
      /\ None \notin Dialogs
  BY BindingsAssumption DEF BindingsAssumption, SessionsInv, SessionsTypeOK, BindingStart, Knows, Step
<1>2. old # None => Underway(old) /\ dialog[old] \in Dialog /\ old # d
  BY <1>1 DEF SessionsInv, SessionsTypeOK, Underway, Step
<1>3. \A v \in Users : left[v] \in {session[v], None}
  OBVIOUS
<1>4. CASE "bindings" \in stopped \/ Restored(d, old)
  <2>1. PICK rec : rec = [dialog[d] EXCEPT !.step = "over"]
    OBVIOUS
  <2>2. /\ rec \in Dialog /\ rec.step = "over" /\ rec.user = dialog[d].user
        /\ rec.revision = dialog[d].revision /\ rec.seen = dialog[d].seen
        /\ rec.live = dialog[d].live /\ rec.bound = dialog[d].bound
    BY <1>1, <2>1 DEF Dialog
  <2>3. dialog' = [dialog EXCEPT ![d] = rec] /\ UNCHANGED <<session, revoked>>
    BY <1>4, <2>1 DEF BindingStart
  <2> QED
    BY <1>1, <2>2, <2>3, OneGoesOn DEF Step
<1>5. CASE ~("bindings" \in stopped \/ Restored(d, old))
  <2>1. /\ dialog' = IF full THEN [replaced EXCEPT ![d].step = "over"]
                     ELSE [replaced EXCEPT ![d] = [dialog[d] EXCEPT !.step = "asking", !.live = TRUE, !.running = TRUE]]
        /\ session' = IF full THEN left ELSE [left EXCEPT ![u] = d]
        /\ revoked' = revoked \union ({old} \ {None})
    BY <1>5 DEF BindingStart
  <2> HIDE DEF full
  <2>2. PICK rec : rec = IF full THEN [dialog[d] EXCEPT !.step = "over"]
                         ELSE [dialog[d] EXCEPT !.step = "asking", !.live = TRUE, !.running = TRUE]
    OBVIOUS
  <2>3. /\ rec \in Dialog /\ rec.step \in {"over", "asking"} /\ rec.user = dialog[d].user
        /\ rec.revision = dialog[d].revision /\ rec.seen = dialog[d].seen /\ rec.bound = dialog[d].bound
    <3>1. CASE full
      <4>1. rec = [dialog[d] EXCEPT !.step = "over"]
        BY <2>2, <3>1
      <4> QED
        BY <1>1, <4>1 DEF Dialog
    <3>2. CASE ~full
      <4>1. rec = [dialog[d] EXCEPT !.step = "asking", !.live = TRUE, !.running = TRUE]
        BY <2>2, <3>2
      <4> QED
        BY <1>1, <4>1 DEF Dialog
    <3> QED
      BY <3>1, <3>2
  <2>4. /\ replaced \in [Dialogs -> Dialog] /\ replaced[d] = dialog[d]
        /\ \A e \in Dialogs : /\ e # old => replaced[e] = dialog[e]
                              /\ e = old => replaced[e] = [dialog[e] EXCEPT !.live = FALSE]
    <3>1. CASE old = None
      BY <1>1, <3>1 DEF SessionsInv, SessionsTypeOK
    <3>2. CASE old # None
      <4>1. [dialog[old] EXCEPT !.live = FALSE] \in Dialog
        BY <1>2, <3>2 DEF Dialog
      <4>2. replaced = [dialog EXCEPT ![old] = [dialog[old] EXCEPT !.live = FALSE]]
        BY <3>2
      <4> QED
        BY <1>1, <1>2, <3>2, <4>1, <4>2 DEF SessionsInv, SessionsTypeOK
    <3> QED
      BY <3>1, <3>2
  <2>5. dialog' = [replaced EXCEPT ![d] = rec]
    <3>1. full => dialog' = [replaced EXCEPT ![d] = [replaced[d] EXCEPT !.step = "over"]]
      BY <2>1
    <3> QED
      BY <2>1, <2>2, <2>4, <3>1
  <2> HIDE DEF replaced
  <2>6. /\ dialog' \in [Dialogs -> Dialog] /\ dialog'[d] = rec
        /\ \A e \in Dialogs \ {d} : /\ e # old => dialog'[e] = dialog[e]
                                    /\ e = old => dialog'[e] = [dialog[e] EXCEPT !.live = FALSE]
    BY <2>3, <2>4, <2>5
  <2>7. \A v \in Users : \/ session'[v] \in {session[v], None}
                         \/ v = u /\ session'[v] = d
    BY <1>3, <2>1
  <2>8. SessionsTurn
    BY <1>1, <2>3, <2>6, <2>7 DEF SessionsTurn, Owner
  <2>9. SessionsTypeOK'
    <3>1. left \in [Users -> Dialogs \union {None}]
      BY DEF SessionsInv, SessionsTypeOK
    <3>2. session' \in [Users -> Dialogs \union {None}]
      BY <2>1, <3>1
    <3> QED
      BY <1>1, <2>1, <2>6, <3>2 DEF SessionsInv, SessionsTypeOK
  <2>10. old # None => /\ dialog'[old].live = FALSE /\ dialog'[old].step = dialog[old].step
                       /\ dialog'[old].user = dialog[old].user /\ dialog'[old].revision = dialog[old].revision
                       /\ dialog'[old].seen = dialog[old].seen /\ dialog'[old].bound = dialog[old].bound
                       /\ dialog'[old].bot = dialog[old].bot
    <3> SUFFICES ASSUME old # None PROVE /\ dialog'[old].live = FALSE /\ dialog'[old].step = dialog[old].step
                       /\ dialog'[old].user = dialog[old].user /\ dialog'[old].revision = dialog[old].revision
                       /\ dialog'[old].seen = dialog[old].seen /\ dialog'[old].bound = dialog[old].bound
                       /\ dialog'[old].bot = dialog[old].bot
      OBVIOUS
    <3>1. dialog'[old] = [dialog[old] EXCEPT !.live = FALSE] /\ dialog[old] \in Dialog
      BY <1>1, <1>2, <2>6
    <3> QED
      BY <3>1 DEF Dialog
  <2>11. ASSUME NEW e \in Dialogs PROVE Follows(e)
    <3>1. CASE e = d
      BY <1>1, <2>3, <2>6, <3>1 DEF Follows, Underway, Step
    <3>2. CASE e # d /\ e # old
      BY <2>6, <3>2 DEF Follows, Underway, Step, SessionsInv, Brings
    <3>3. CASE e = old
      BY <1>1, <1>2, <2>10, <3>3 DEF Follows, Underway, Step, SessionsInv, Brings
    <3> QED
      BY <3>1, <3>2, <3>3
  <2>12. \A e \in revoked' \ revoked : dialog'[e].step \notin {"new", "checked"} /\ ~dialog'[e].live
    BY <1>2, <2>1, <2>10 DEF Underway, Step
  <2> QED
    BY <2>8, <2>9, <2>11, <2>12 DEF DialogsGoOn
<1> QED
  BY <1>4, <1>5

\* What every step of the dialogs and the settings keeps.
BindingStep == ChannelsInv' /\ SettingsTell /\ (\A c \in Channels : KeepsProvider(c)) /\ DialogsGoOn

\* A step that leaves channels and settings alone.
LEMMA StoreRests ==
    ASSUME ChannelsInv, UNCHANGED <<channel, revision>>, member' \in [Users -> {"active", "disabled", "gone"}],
           \A u \in Users : member[u] = "gone" => member'[u] = "gone"
    PROVE  ChannelsInv' /\ SettingsTell /\ \A c \in Channels : KeepsProvider(c)
<1>1. ChannelsInv' /\ SettingsTell
  BY StatesStore DEF ChannelsInv, StoreTypeOK
<1>2. \A c \in Channels : KeepsProvider(c)
  BY DEF KeepsProvider, SameProvider
<1> QED
  BY <1>1, <1>2

LEMMA MembersRest ==
    ASSUME ChannelsInv, UNCHANGED <<member, channel, revision>>
    PROVE  ChannelsInv' /\ SettingsTell /\ \A c \in Channels : KeepsProvider(c)
BY StoreRests DEF ChannelsInv, StoreTypeOK

\* The steps that only move a dialog on.
LEMMA MoveGoesOn ==
    ASSUME SessionsInv, NEW d \in Dialogs, NEW step \in {"pairing", "asking", "failed"}, Moves(d, step), Underway(d)
    PROVE  DialogsGoOn
<1>1. PICK rec : rec = [dialog[d] EXCEPT !.step = step]
  OBVIOUS
<1>2. dialog[d] \in Dialog
  BY DEF SessionsInv, SessionsTypeOK
<1>3. /\ rec \in Dialog /\ rec.step = step /\ rec.user = dialog[d].user
      /\ rec.revision = dialog[d].revision /\ rec.seen = dialog[d].seen
      /\ rec.live = dialog[d].live /\ rec.bound = dialog[d].bound
  BY <1>1, <1>2 DEF Dialog
<1>4. dialog' = [dialog EXCEPT ![d] = rec] /\ UNCHANGED <<session, revoked>>
  BY <1>1 DEF Moves
<1> QED
  BY <1>3, <1>4, OneGoesOn DEF Underway

LEMMA ConfirmedGoesOn ==
    ASSUME SessionsInv, NEW d \in Dialogs, NEW bot \in Bots, NEW secret \in Secrets, BindingConfirmed(d, bot, secret)
    PROVE  DialogsGoOn
<1>1. PICK rec : rec = [dialog[d] EXCEPT !.step = "returning", !.bot = bot, !.secret = secret]
  OBVIOUS
<1>2. dialog[d] \in Dialog
  BY DEF SessionsInv, SessionsTypeOK
<1>3. /\ rec \in Dialog /\ rec.step = "returning" /\ rec.user = dialog[d].user
      /\ rec.revision = dialog[d].revision /\ rec.seen = dialog[d].seen
      /\ rec.live = dialog[d].live /\ rec.bound = dialog[d].bound /\ rec.bot = bot
  BY <1>1, <1>2 DEF Dialog
<1>4. dialog' = [dialog EXCEPT ![d] = rec] /\ UNCHANGED <<session, revoked>> /\ Step(d) = "asking"
  BY <1>1 DEF BindingConfirmed
<1> QED
  BY <1>3, <1>4, OneGoesOn DEF Underway

\* The end of a dialog: it binds only with the settings it has seen.
LEMMA EndsWell ==
    ASSUME ChannelsInv, SessionsInv, NEW d \in Dialogs, BindingEnds(d)
    PROVE  BindingStep
<1>1. /\ dialog[d] \in Dialog /\ Underway(d) /\ Owner(d) \in Users
      /\ UNCHANGED <<member, session, revoked>>
  BY DEF SessionsInv, SessionsTypeOK, BindingEnds, Underway, Knows
<1>2. PICK over : over = [dialog[d] EXCEPT !.step = "over", !.live = FALSE,
                                          !.running = dialog[d].running /\ ~Current(d)]
  OBVIOUS
<1>3. PICK running \in BOOLEAN : running = (dialog[d].running /\ ~Current(d))
  OBVIOUS
<1>4. /\ over \in Dialog /\ over.step = "over" /\ over.user = dialog[d].user
      /\ over.revision = dialog[d].revision /\ over.seen = dialog[d].seen
      /\ over.live = FALSE /\ over.bound = dialog[d].bound
  <2>1. over = [dialog[d] EXCEPT !.step = "over", !.live = FALSE, !.running = running]
    BY <1>2, <1>3
  <2> QED
    BY <1>1, <2>1 DEF Dialog
<1>5. CASE /\ Step(d) = "returning" /\ Wanted(d)
           /\ CanBind(Owner(d), dialog[d].target, dialog[d].revision, dialog[d].bot)
           /\ \E enabled \in BOOLEAN :
                /\ Bind(Owner(d), dialog[d].target, dialog[d].bot, dialog[d].secret, enabled)
                /\ dialog' = [dialog EXCEPT ![d] = [over EXCEPT !.bound = TRUE]]
  <2>1. PICK enabled \in BOOLEAN :
          /\ Bind(Owner(d), dialog[d].target, dialog[d].bot, dialog[d].secret, enabled)
          /\ dialog' = [dialog EXCEPT ![d] = [over EXCEPT !.bound = TRUE]]
    BY <1>5
  <2>2. dialog[d].target \in Channels \union {None} /\ dialog[d].secret \in Secrets \union {None}
        /\ dialog[d].bot \in Bots
    BY <1>1, <1>5 DEF Dialog, SessionsInv, Brings
  <2>3. ChannelsInv' /\ SettingsTell /\ \A c \in Channels : KeepsProvider(c)
    BY <1>1, <1>5, <2>1, <2>2, BindStores, ZenonT(40) DEF SessionsInv
  <2>4. PICK rec : rec = [over EXCEPT !.bound = TRUE]
    OBVIOUS
  <2>5. /\ rec \in Dialog /\ rec.step = "over" /\ rec.user = dialog[d].user
        /\ rec.revision = dialog[d].revision /\ rec.seen = dialog[d].seen /\ rec.live = FALSE
    BY <1>4, <2>4 DEF Dialog
  <2>6. d \notin revoked
    BY <1>5 DEF SessionsInv
  <2>7. dialog[d].seen = Config(Owner(d))
    BY <1>1, <1>5 DEF SessionsInv, Knows, CanBind
  <2>8. DialogsGoOn
    BY <1>1, <2>1, <2>4, <2>5, <2>6, <2>7, OneGoesOn DEF Underway
  <2> QED
    BY <2>3, <2>8 DEF BindingStep
<1>6. CASE dialog' = [dialog EXCEPT ![d] = over] /\ UNCHANGED <<channel, revision>>
  <2>1. DialogsGoOn
    BY <1>1, <1>4, <1>6, OneGoesOn DEF Underway
  <2> QED
    BY <1>1, <1>6, <2>1, MembersRest DEF BindingStep
<1> QED
  BY <1>2, <1>5, <1>6 DEF BindingEnds

LEMMA CancelGoesOn ==
    ASSUME SessionsInv, NEW u \in Users, CancelBinding(u), UNCHANGED session
    PROVE  DialogsGoOn
<1>1. CASE session[u] = None
  BY <1>1, DialogsRest DEF CancelBinding
<1>2. CASE session[u] # None
  <2>1. PICK d \in Dialogs : d = session[u]
    BY <1>2 DEF SessionsInv, SessionsTypeOK
  <2>2. dialog[d] \in Dialog /\ Underway(d) /\ Brings(d)
    BY <1>2, <2>1 DEF SessionsInv, SessionsTypeOK
  <2>3. PICK rec : rec = [dialog[d] EXCEPT !.live = FALSE, !.running = FALSE]
    OBVIOUS
  <2>4. /\ rec \in Dialog /\ rec.step = dialog[d].step /\ rec.user = dialog[d].user
        /\ rec.revision = dialog[d].revision /\ rec.seen = dialog[d].seen
        /\ rec.live = FALSE /\ rec.bound = dialog[d].bound /\ rec.bot = dialog[d].bot
    BY <2>2, <2>3 DEF Dialog
  <2>5. dialog' = [dialog EXCEPT ![d] = rec] /\ revoked' = revoked \union {d}
    BY <1>2, <2>1, <2>2, <2>3 DEF CancelBinding, Cancelled, SessionsInv, SessionsTypeOK
  <2> QED
    BY <2>2, <2>4, <2>5, OneGoesOn DEF Underway, Brings, Step
<1> QED
  BY <1>1, <1>2

LEMMA TimeoutGoesOn ==
    ASSUME SessionsInv, NEW d \in Dialogs, BindingTimesOut(d)
    PROVE  DialogsGoOn
<1>1. dialog[d] \in Dialog /\ Underway(d) /\ Brings(d)
  BY DEF SessionsInv, SessionsTypeOK, BindingTimesOut, Underway
<1>2. PICK rec : rec = [dialog[d] EXCEPT !.live = FALSE, !.expired = TRUE]
  OBVIOUS
<1>3. /\ rec \in Dialog /\ rec.step = dialog[d].step /\ rec.user = dialog[d].user
      /\ rec.revision = dialog[d].revision /\ rec.seen = dialog[d].seen
      /\ rec.live = FALSE /\ rec.bound = dialog[d].bound /\ rec.bot = dialog[d].bot
  BY <1>1, <1>2 DEF Dialog
<1>4. dialog' = [dialog EXCEPT ![d] = rec] /\ revoked' = revoked \union {d} /\ UNCHANGED session
  BY <1>1, <1>2 DEF BindingTimesOut, SessionsInv, SessionsTypeOK
<1> QED
  BY <1>1, <1>3, <1>4, OneGoesOn DEF Underway, Brings, Step

LEMMA StopGoesOn ==
    ASSUME SessionsInv, StopBindings
    PROVE  DialogsGoOn
<1>1. \A d \in Dialogs : dialog[d] \in Dialog
  BY DEF SessionsInv, SessionsTypeOK
<1>2. ASSUME NEW d \in Dialogs
      PROVE  /\ dialog'[d] \in Dialog /\ dialog'[d].step = dialog[d].step /\ dialog'[d].user = dialog[d].user
             /\ dialog'[d].revision = dialog[d].revision /\ dialog'[d].seen = dialog[d].seen
             /\ dialog'[d].live => dialog[d].live
             /\ dialog'[d].bound = dialog[d].bound /\ dialog'[d].bot = dialog[d].bot
             /\ (\E u \in Users : session[u] = d) => ~dialog'[d].live
  <2>1. dialog'[d] = IF \E u \in Users : session[u] = d THEN [dialog[d] EXCEPT !.live = FALSE] ELSE dialog[d]
    BY DEF StopBindings
  <2>2. CASE \E u \in Users : session[u] = d
    <3>1. dialog'[d] = [dialog[d] EXCEPT !.live = FALSE]
      BY <2>1, <2>2
    <3> QED
      BY <1>1, <3>1 DEF Dialog
  <2>3. CASE ~\E u \in Users : session[u] = d
    BY <1>1, <2>1, <2>3
  <2> QED
    BY <2>2, <2>3
<1>3. /\ revoked' = revoked \union ({session[u] : u \in Users} \ {None})
      /\ UNCHANGED session
      /\ dialog' = [d \in Dialogs |-> IF \E u \in Users : session[u] = d
                                        THEN [dialog[d] EXCEPT !.live = FALSE] ELSE dialog[d]]
  BY DEF StopBindings
<1>4. SessionsTypeOK'
  <2>1. dialog' \in [Dialogs -> Dialog]
    BY <1>2, <1>3
  <2> QED
    BY <1>3, <2>1 DEF SessionsInv, SessionsTypeOK
<1>5. \A d \in Dialogs : Follows(d)
  BY <1>2 DEF Follows, Underway, Step, SessionsInv, Brings
<1>6. ASSUME NEW d \in revoked' \ revoked PROVE dialog'[d].step \notin {"new", "checked"} /\ ~dialog'[d].live
  <2>1. PICK u \in Users : d = session[u] /\ d # None
    BY <1>3
  <2>2. d \in Dialogs /\ Underway(d)
    BY <2>1 DEF SessionsInv, SessionsTypeOK
  <2> QED
    BY <1>2, <2>1, <2>2 DEF Underway, Step
<1> QED
  BY <1>3, <1>4, <1>5, <1>6 DEF DialogsGoOn, SessionsTurn

LEMMA DialogSteps ==
    ASSUME ChannelsInv, SessionsInv, NEW d \in Dialogs, DialogGoesOn(d)
    PROVE  BindingStep
<1>1. CASE BindingEnds(d)
  BY <1>1, EndsWell
<1>2. CASE ~BindingEnds(d)
  <2>1. DialogsGoOn
    BY <1>2, BindingStartGoesOn, MoveGoesOn, ConfirmedGoesOn
       DEF DialogGoesOn, BindingFails, PairingAsked, Underway
  <2>2. UNCHANGED <<member, channel, revision>>
    BY <1>2 DEF DialogGoesOn, BindingStart, BindingFails, PairingAsked, Moves, BindingConfirmed
  <2> QED
    BY <2>1, <2>2, MembersRest DEF BindingStep
<1> QED
  BY <1>1, <1>2

LEMMA BeginSteps ==
    ASSUME ChannelsInv, SessionsInv, Begins
    PROVE  BindingStep
<1>1. ASSUME NEW u \in Users, Enable(u) PROVE BindingStep
  <2>1. DialogsGoOn
    BY <1>1, DialogsRest DEF Enable
  <2>2. /\ UNCHANGED <<channel, revision>> /\ member' \in [Users -> {"active", "disabled", "gone"}]
        /\ \A v \in Users : member[v] = "gone" => member'[v] = "gone"
    BY <1>1 DEF Enable, ChannelsInv, StoreTypeOK
  <2> QED
    BY <2>1, <2>2, StoreRests DEF BindingStep
<1>2. ASSUME NEW u \in Users, NEW d \in Dialogs, NEW qq \in BOOLEAN, NEW target \in Channels \union {None},
             PushQRStart(u, d, target, qq)
      PROVE  BindingStep
  <2>1. DialogsGoOn
    BY <1>2, StartGoesOn
  <2> QED
    BY <1>2, <2>1, MembersRest DEF PushQRStart, BindingStep
<1> QED
  BY <1>1, <1>2 DEF Begins

LEMMA RevokedSteps ==
    ASSUME ChannelsInv, SessionsInv, NEW u \in Users, Revoked(u)
    PROVE  BindingStep
<1>1. DialogsGoOn
  BY CancelGoesOn, DialogsRest DEF Revoked
<1>2. CASE Head(revoking[u]) = "delete"
  BY <1>1, <1>2, DeleteStores DEF Revoked, BindingStep
<1>3. CASE Head(revoking[u]) # "delete"
  BY <1>1, <1>3, MembersRest DEF Revoked, BindingStep
<1> QED
  BY <1>2, <1>3

LEMMA ActSteps ==
    ASSUME ChannelsInv, SessionsInv, BindingActs
    PROVE  BindingStep
<1>1. ASSUME NEW u \in Users, UpdatePush(u), UNCHANGED <<member, dialog, session, revoking, stopped, revoked>>
      PROVE  BindingStep
  BY <1>1, UpdateStores, DialogsRest DEF BindingStep
<1>2. ASSUME NEW u \in Users, PushQRCancel(u) PROVE BindingStep
  BY <1>2, CancelGoesOn, MembersRest DEF PushQRCancel, BindingStep
<1>3. ASSUME NEW u \in Users, Disable(u) \/ Delete(u) \/ Logout(u) PROVE BindingStep
  <2>1. DialogsGoOn
    BY <1>3, DialogsRest DEF Disable, Delete, Logout, Revokes
  <2>2. /\ UNCHANGED <<channel, revision>> /\ member' \in [Users -> {"active", "disabled", "gone"}]
        /\ \A v \in Users : member[v] = "gone" => member'[v] = "gone"
    BY <1>3 DEF Disable, Delete, Logout, Revokes, ChannelsInv, StoreTypeOK
  <2> QED
    BY <2>1, <2>2, StoreRests DEF BindingStep
<1>4. ASSUME NEW u \in Users, Verify(u) PROVE BindingStep
  <2>1. PICK d \in Dialogs : d = session[u]
    BY <1>4 DEF Verify, SessionsInv, SessionsTypeOK
  <2>2. DialogsGoOn
    BY <1>4, <2>1, MoveGoesOn DEF Verify, Underway
  <2> QED
    BY <1>4, <2>2, MembersRest DEF Verify, Moves, BindingStep
<1>5. ASSUME NEW d \in Dialogs, BindingTimesOut(d) PROVE BindingStep
  BY <1>5, TimeoutGoesOn, MembersRest DEF BindingTimesOut, BindingStep
<1>6. CASE StopBindings
  BY <1>6, StopGoesOn, MembersRest DEF StopBindings, BindingStep
<1> QED
  BY <1>1, <1>2, <1>3, <1>4, <1>5, <1>6 DEF BindingActs

LEMMA RestSteps ==
    ASSUME ChannelsInv, SessionsInv, UNCHANGED bindingVars
    PROVE  BindingStep
BY MembersRest, DialogsRest DEF bindingVars, BindingStep

\* BindsWhatWasSeen, of one step.
SeenBind ==
    \A d \in Dialogs : dialog'[d].bound /\ ~dialog[d].bound =>
        /\ d \notin revoked
        /\ dialog[d].seen = Config(Owner(d))

LEMMA BindingStepKeeps ==
    ASSUME ChannelsInv, SessionsInv, BindingStep
    PROVE  ChannelsInv' /\ SessionsInv' /\ SeenBind
<1>1. SessionsInv'
  BY SessionsKept DEF BindingStep
<1>2. SeenBind
  BY DEF BindingStep, DialogsGoOn, Follows, SeenBind
<1> QED
  BY <1>1, <1>2 DEF BindingStep

LEMMA NextBindings ==
    ASSUME ChannelsInv, SessionsInv, [BindingsNext]_bindingVars
    PROVE  ChannelsInv' /\ SessionsInv' /\ SeenBind
BY DialogSteps, BeginSteps, RevokedSteps, ActSteps, RestSteps, BindingStepKeeps DEF BindingsNext

\* The inductive invariant of the settings and the dialogs that bind channels.
THEOREM BindingsInductive == BindingsSpec => [](ChannelsInv /\ SessionsInv)
<1>1. BindingsInit => ChannelsInv /\ SessionsInv
  BY InitChannels, InitSessions
<1>2. ChannelsInv /\ SessionsInv /\ [BindingsNext]_bindingVars => (ChannelsInv /\ SessionsInv)'
  BY NextBindings
<1> QED
  BY <1>1, <1>2, PTL DEF BindingsSpec

\* A QQ bot serves one channel of the site (store/push.go looks through the
\* channels of all users, both when settings are saved and when a dialog binds).
THEOREM BotsStayUnique == BindingsSpec => []QQBotsUnique
<1>1. ChannelsInv => QQBotsUnique
  BY DEF ChannelsInv
<1> QED
  BY <1>1, BindingsInductive, PTL

\* A binding never overwrites an edit the user made meanwhile, and none comes
\* from a dialog that was cancelled, replaced, timed out or revoked.
THEOREM BindingsAreSeen == BindingsSpec => BindsWhatWasSeen
<1>1. ChannelsInv /\ SessionsInv /\ [BindingsNext]_bindingVars =>
        [\A d \in Dialogs : dialog'[d].bound /\ ~dialog[d].bound =>
            /\ d \notin revoked
            /\ dialog[d].seen = Config(Owner(d))]_bindingVars
  BY NextBindings DEF SeenBind
<1> QED
  BY <1>1, BindingsInductive, PTL DEF BindingsSpec, BindsWhatWasSeen

-----------------------------------------------------------------------------
(* Proofs about the monitors. *)

LEMMA InitWorkers == GatewaysInit => WorkersInv
<1> SUFFICES ASSUME GatewaysInit PROVE WorkersInv
  OBVIOUS
<1>1. NoWorker \in Worker /\ NoWorker.step = "done"
  BY DEF NoWorker, Worker, States
<1>2. WorkersTypeOK
  BY <1>1 DEF GatewaysInit, WorkersTypeOK
<1>3. /\ \A w \in Workers : worker[w].step = "done"
      /\ \A c \in Channels : monitor[c] = None
      /\ \A m \in Monitors : snapshot[m] = {}
  BY <1>1 DEF GatewaysInit
<1>4. \A m \in Monitors, c \in Channels : ~Sees(m, c)
  BY <1>3 DEF Sees, Mine, WantedBy
<1>5. "qq" \in Monitors
  BY DEF Monitors
<1> QED
  BY <1>2, <1>3, <1>4, <1>5 DEF WorkersInv, InPlace, Online, Ended

\* What a goroutine keeps when it is cancelled at most.
Same(w) ==
    /\ worker'[w].channel = worker[w].channel /\ worker'[w].owner = worker[w].owner
    /\ worker'[w].bot = worker[w].bot /\ worker'[w].secret = worker[w].secret
    /\ worker'[w].step = worker[w].step

LEMMA CancelledSame ==
    ASSUME WorkersInv, NEW w \in Workers,
           worker'[w] \in {worker[w], [worker[w] EXCEPT !.live = FALSE]}
    PROVE  Same(w) /\ worker'[w] \in Worker
<1>1. worker[w] \in Worker
  BY DEF WorkersInv, WorkersTypeOK
<1>2. CASE worker'[w] = worker[w]
  BY <1>1, <1>2 DEF Same
<1>3. CASE worker'[w] = [worker[w] EXCEPT !.live = FALSE]
  BY <1>1, <1>3 DEF Same, Worker
<1> QED
  BY <1>2, <1>3

\* The monitors have to do with the channels they had to do with.
LEMMA SeesSame ==
    ASSUME WorkersInv, \A w \in Workers : Same(w), UNCHANGED <<monitor, snapshot>>,
           NEW m, NEW c \in Channels
    PROVE  Sees(m, c)' <=> Sees(m, c)
<1>1. monitor[c] \in Workers \union {None}
  BY DEF WorkersInv, WorkersTypeOK
<1>2. (c \in Mine(m))' <=> c \in Mine(m)
  BY <1>1 DEF Mine, Same
<1>3. WantedBy(m)' = WantedBy(m)
  BY DEF WantedBy
<1> QED
  BY <1>2, <1>3 DEF Sees

\* Settings and dialogs go on; goroutines are cancelled at most.
LEMMA WorkersRest ==
    ASSUME ChannelsInv, ChannelsInv', WorkersInv, \A c \in Channels : KeepsProvider(c),
           worker' \in [Workers -> Worker], \A w \in Workers : Same(w), UNCHANGED <<monitor, snapshot>>
    PROVE  WorkersInv'
<1>1. WorkersTypeOK'
  BY DEF WorkersInv, WorkersTypeOK
<1>2. \A w \in Workers : InPlace(w)'
  BY DEF WorkersInv, InPlace, Same, Ended
<1>3. \A c \in Channels : monitor'[c] # None => worker'[monitor'[c]].channel = c
  BY DEF WorkersInv, WorkersTypeOK, Same
<1>4. \A m \in Monitors : \A pair \in snapshot'[m] : pair[1] # None => MonitorOf(pair[2].bot) = m
  BY DEF WorkersInv
<1>5. ASSUME NEW m \in Monitors, NEW c \in Channels, Sees(m, c)' PROVE OfProvider(m, c)'
  <2>1. OfProvider(m, c) /\ KeepsProvider(c)
    BY <1>5, SeesSame DEF WorkersInv
  <2> QED
    BY <2>1 DEF OfProvider, KeepsProvider, SameProvider, MonitorOf
<1>6. \A c \in Channels : ~(Sees("qq", c)' /\ Sees("weixin", c)')
  BY SeesSame DEF WorkersInv
<1>7. ASSUME NEW w \in Workers PROVE Online(w)'
  <2> SUFFICES ASSUME NEW c, c = worker[w].channel, worker'[w].step = "online", channel'[c].owner = worker'[w].owner,
                      channel'[c].bot = worker'[w].bot, channel'[c].secret = worker'[w].secret
               PROVE  channel'[c].state \notin {"disconnected", "reconnecting", "error"}
    BY DEF Online, For, Same
  <2>1. worker[w].step = "online" /\ c \in Channels /\ worker[w].bot \in QQBots
    BY DEF WorkersInv, InPlace, Ended, Same
  <2>2. channel'[c].owner # None
    BY <2>1, BindingsAssumption DEF ChannelsInv, Kept, Same, BindingsAssumption, Bots
  <2>3. Online(w) /\ KeepsProvider(c)
    BY <2>1 DEF WorkersInv
  <2> QED
    BY <2>1, <2>2, <2>3 DEF Online, KeepsProvider, Beginnings, For, Same
<1>8. \A m \in Monitors, c \in Channels : Sees(m, c)' => OfProvider(m, c)'
  BY <1>5
<1> QED
  BY <1>1, <1>2, <1>3, <1>4, <1>6, <1>7, <1>8 DEF WorkersInv

\* Two goroutines of the QQ monitor never run for one channel.
LEMMA OneRuns ==
    ASSUME WorkersInv, NEW v \in Workers, NEW w \in Workers, ~Ended(v), ~Ended(w),
           worker[v].channel = worker[w].channel, worker[v].bot \in QQBots, worker[w].bot \in QQBots
    PROVE  v = w
BY DEF WorkersInv, InPlace, Ended

\* A goroutine goes on, and reports to the store at most the state of its channel.
LEMMA WorkerMoves ==
    ASSUME ChannelsInv, WorkersInv, NEW w \in Workers, NEW rec \in Worker, worker' = [worker EXCEPT ![w] = rec],
           ~Ended(w), rec.channel = worker[w].channel, rec.owner = worker[w].owner,
           rec.bot = worker[w].bot, rec.secret = worker[w].secret,
           IF worker[w].step \in {"polling", "answered"} THEN rec.step \in {"polling", "answered", "done"}
           ELSE rec.step \notin {"polling", "answered"},
           NEW state \in States,
           \/ UNCHANGED channel /\ rec.step # "online"
           \/ /\ Matches(w) /\ channel' = [channel EXCEPT ![worker[w].channel].state = state]
              /\ rec.step = "online" => state = "ready",
           UNCHANGED <<member, revision, monitor, snapshot>>
    PROVE  ChannelsInv' /\ SettingsTell /\ WorkersInv'
<1> DEFINE c == worker[w].channel
<1>1. c \in Channels /\ channel[c] \in Channel
  BY DEF WorkersInv, InPlace, ChannelsInv, StoreTypeOK
<1>2. /\ channel' \in [Channels -> Channel]
      /\ \A i \in Channels : /\ channel'[i].owner = channel[i].owner /\ channel'[i].used = channel[i].used
                             /\ channel'[i].bot = channel[i].bot /\ channel'[i].secret = channel[i].secret
                             /\ channel'[i].enabled = channel[i].enabled
      /\ \A i \in Channels \ {c} : channel'[i].state = channel[i].state
      /\ \/ UNCHANGED channel /\ rec.step # "online"
         \/ channel'[c].state = state /\ (rec.step = "online" => state = "ready")
  <2>1. CASE UNCHANGED channel /\ rec.step # "online"
    BY <2>1 DEF ChannelsInv, StoreTypeOK
  <2>2. CASE /\ channel' = [channel EXCEPT ![c].state = state]
             /\ rec.step = "online" => state = "ready"
    <3>1. PICK new : new = [channel[c] EXCEPT !.state = state]
      OBVIOUS
    <3>2. /\ new \in Channel /\ new.owner = channel[c].owner /\ new.used = channel[c].used
          /\ new.bot = channel[c].bot /\ new.secret = channel[c].secret
          /\ new.enabled = channel[c].enabled /\ new.state = state
      BY <1>1, <3>1 DEF Channel
    <3>3. channel' = [channel EXCEPT ![c] = new]
      BY <2>2, <3>1
    <3> QED
      BY <1>1, <3>2, <3>3 DEF ChannelsInv, StoreTypeOK
  <2> QED
    BY <2>1, <2>2
<1>3. ChannelsInv' /\ SettingsTell
  BY <1>2, StatesStore DEF ChannelsInv, StoreTypeOK
<1>4. worker'[w] = rec /\ \A v \in Workers \ {w} : worker'[v] = worker[v]
  BY DEF WorkersInv, WorkersTypeOK
<1>5. WorkersTypeOK'
  BY DEF WorkersInv, WorkersTypeOK
<1>6. ASSUME NEW v \in Workers PROVE InPlace(v)'
  <2>1. CASE v = w
    BY <1>4, <2>1 DEF WorkersInv, InPlace, Ended
  <2>2. CASE v # w
    BY <1>4, <2>2 DEF WorkersInv, InPlace, Ended
  <2> QED
    BY <2>1, <2>2
<1>7. \A i \in Channels : monitor'[i] # None => worker'[monitor'[i]].channel = i
  BY <1>4 DEF WorkersInv, WorkersTypeOK
<1>8. ASSUME NEW m, NEW i \in Channels PROVE Sees(m, i)' <=> Sees(m, i)
  <2>1. monitor[i] \in Workers \union {None}
    BY DEF WorkersInv, WorkersTypeOK
  <2>2. (i \in Mine(m))' <=> i \in Mine(m)
    BY <1>4, <2>1 DEF Mine
  <2>3. WantedBy(m)' = WantedBy(m)
    BY DEF WantedBy
  <2> QED
    BY <2>2, <2>3 DEF Sees
<1>9. ASSUME NEW m \in Monitors, NEW i \in Channels, Sees(m, i)' PROVE OfProvider(m, i)'
  BY <1>2, <1>8, <1>9 DEF WorkersInv, OfProvider
<1>10. \A i \in Channels : ~(Sees("qq", i)' /\ Sees("weixin", i)')
  BY <1>8 DEF WorkersInv
<1>11. ASSUME NEW v \in Workers PROVE Online(v)'
  <2>1. CASE v = w
    <3> SUFFICES ASSUME rec.step = "online" PROVE channel'[c].state = "ready"
      BY <1>4, <2>1 DEF Online
    <3> QED
      BY <1>2
  <2>2. CASE v # w
    <3> SUFFICES ASSUME NEW i, i = worker[v].channel, worker[v].step = "online", channel'[i].owner = worker[v].owner,
                        channel'[i].bot = worker[v].bot, channel'[i].secret = worker[v].secret
                 PROVE  channel'[i].state \notin {"disconnected", "reconnecting", "error"}
      BY <1>4, <2>2 DEF Online, For
    <3>1. i \in Channels /\ worker[v].bot \in QQBots /\ ~Ended(v)
      BY DEF WorkersInv, InPlace, Ended
    <3>2. channel[i].state \notin {"disconnected", "reconnecting", "error"}
      BY <1>2, <3>1 DEF WorkersInv, Online, For
    <3>3. CASE UNCHANGED channel
      BY <3>2, <3>3
    <3>4. CASE i # c
      BY <1>2, <3>1, <3>2, <3>4
    <3>5. CASE i = c /\ ~UNCHANGED channel
      <4>1. worker[w].bot \in QQBots
        BY <1>1, <1>2, <3>1, <3>5 DEF Matches, For
      <4> QED
        BY <2>2, <3>1, <3>5, <4>1, OneRuns
    <3> QED
      BY <3>3, <3>4, <3>5
  <2> QED
    BY <2>1, <2>2
<1>12. \A m \in Monitors : \A pair \in snapshot'[m] : pair[1] # None => MonitorOf(pair[2].bot) = m
  BY DEF WorkersInv
<1>13. \A m \in Monitors, i \in Channels : Sees(m, i)' => OfProvider(m, i)'
  BY <1>9
<1> QED
  BY <1>3, <1>5, <1>6, <1>7, <1>10, <1>11, <1>12, <1>13 DEF WorkersInv

\* What a pass that starts goroutines does to the monitor's map.
LEMMA LaunchKeeps ==
    ASSUME ChannelsInv, ChannelsInv', WorkersInv, NEW m \in Monitors, NEW starting \in SUBSET WantedBy(m),
           NEW cancelled, NEW forgotten, Launch(m, starting, cancelled, forgotten),
           \A c \in Channels : c \in starting \union forgotten /\ monitor[c] # None =>
              Ended(monitor[c]) \/ worker[monitor[c]].bot \notin QQBots,
           \A c \in Channels : /\ channel'[c].owner = channel[c].owner /\ channel'[c].used = channel[c].used
                               /\ channel'[c].bot = channel[c].bot /\ channel'[c].secret = channel[c].secret,
           \A c \in Channels : channel'[c].state # channel[c].state => monitor[c] = None \/ Ended(monitor[c]),
           snapshot' = [snapshot EXCEPT ![m] = {}]
    PROVE  WorkersInv'
<1>1. PICK pick \in [starting -> Free] :
        /\ \A c, other \in starting : c # other => pick[c] # pick[other]
        /\ worker' = [w \in Workers |->
                         IF \E c \in starting : pick[c] = w
                           THEN Started(m, CHOOSE c \in starting : pick[c] = w)
                         ELSE IF \E c \in cancelled : monitor[c] = w
                           THEN [worker[w] EXCEPT !.live = FALSE]
                         ELSE worker[w]]
        /\ monitor' = [c \in Channels |-> IF c \in starting THEN pick[c]
                                          ELSE IF c \in forgotten THEN None
                                          ELSE monitor[c]]
  BY DEF Launch
<1>2. /\ monitor \in [Channels -> Workers \union {None}]
      /\ snapshot[m] \in SUBSET ((Channels \union {None}) \X Channel)
      /\ None \notin Workers
      /\ starting \subseteq Channels
  BY GatewaysAssumption DEF GatewaysAssumption, WorkersInv, WorkersTypeOK, WantedBy
<1>3. ASSUME NEW c \in starting
      PROVE  /\ c \in Channels /\ Sees(m, c)
             /\ Read(m, c) \in Channel /\ MonitorOf(Read(m, c).bot) = m
  <2>1. \E pair \in snapshot[m] : pair[1] = c /\ c # None
    BY DEF WantedBy
  <2>2. PICK pair \in snapshot[m] : pair[1] = c /\ c # None /\ Read(m, c) = pair[2]
    <3>1. PICK found : found = CHOOSE pair \in snapshot[m] : pair[1] = c
      OBVIOUS
    <3>2. found \in snapshot[m] /\ found[1] = c
      BY <2>1, <3>1
    <3> QED
      BY <2>1, <3>1, <3>2 DEF Read
  <2>3. MonitorOf(pair[2].bot) = m
    BY <2>2 DEF WorkersInv
  <2>4. pair \in (Channels \union {None}) \X Channel
    BY <1>2, <2>2
  <2> QED
    BY <1>2, <2>2, <2>3, <2>4 DEF Sees
<1>4. ASSUME NEW c \in starting
      PROVE  /\ pick[c] \in Workers /\ Ended(pick[c]) /\ (\A i \in Channels : monitor[i] # pick[c])
             /\ worker'[pick[c]] = Started(m, c)
  <2>1. pick[c] \in Workers /\ Ended(pick[c]) /\ \A i \in Channels : monitor[i] # pick[c]
    BY DEF Free
  <2>2. (CHOOSE i \in starting : pick[i] = pick[c]) = c
    <3>1. \E i \in starting : pick[i] = pick[c]
      OBVIOUS
    <3>2. \A i \in starting : pick[i] = pick[c] => i = c
      BY <1>1
    <3> QED
      BY <3>1, <3>2
  <2> QED
    BY <1>1, <2>1, <2>2
<1>5. ASSUME NEW c \in starting
      PROVE  /\ Started(m, c) \in Worker /\ Started(m, c).channel = c
             /\ Started(m, c).step = IF m = "qq" THEN "start" ELSE "polling"
             /\ MonitorOf(Started(m, c).bot) = m
  <2>1. PICK record : record = Read(m, c)
    OBVIOUS
  <2>2. record \in Channel /\ MonitorOf(record.bot) = m /\ c \in Channels
    BY <1>3, <2>1
  <2>3. PICK step \in {"start", "polling"} : step = IF m = "qq" THEN "start" ELSE "polling"
    OBVIOUS
  <2>4. PICK new : new = [channel |-> c, owner |-> record.owner, bot |-> record.bot, secret |-> record.secret,
                          live |-> TRUE, step |-> step, answer |-> ""]
    OBVIOUS
  <2>5. Started(m, c) = new
    BY <2>1, <2>3, <2>4 DEF Started
  <2>6. /\ record.owner \in Users \union {None} /\ record.bot \in Bots \union {None}
        /\ record.secret \in Secrets \union {None}
    BY <2>2 DEF Channel
  <2>7. "" \in States
    BY DEF States
  <2>8. new \in Worker /\ new.channel = c /\ new.step = step /\ new.bot = record.bot
    BY <2>2, <2>4, <2>6, <2>7 DEF Worker
  <2> QED
    BY <2>2, <2>3, <2>5, <2>8
<1>6. ASSUME NEW w \in Workers
      PROVE  \/ \E c \in starting : pick[c] = w
             \/ Same(w) /\ worker'[w] \in Worker
  <2>1. CASE \E c \in starting : pick[c] = w
    BY <2>1
  <2>2. CASE ~\E c \in starting : pick[c] = w
    <3>1. worker'[w] \in {worker[w], [worker[w] EXCEPT !.live = FALSE]}
      BY <1>1, <2>2
    <3> QED
      BY <3>1, CancelledSame
  <2> QED
    BY <2>1, <2>2
<1>7. ASSUME NEW c \in Channels
      PROVE  \/ c \in starting /\ monitor'[c] = pick[c]
             \/ /\ monitor'[c] = None
                /\ monitor[c] # None => Ended(monitor[c]) \/ worker[monitor[c]].bot \notin QQBots
             \/ monitor'[c] = monitor[c]
  BY <1>1
<1>8. WorkersTypeOK'
  <2>1. worker' \in [Workers -> Worker]
    <3>1. \A w \in Workers : worker'[w] \in Worker
      BY <1>4, <1>5, <1>6
    <3> QED
      BY <1>1, <3>1
  <2>2. monitor' \in [Channels -> Workers \union {None}]
    BY <1>1, <1>2, <1>4
  <2> QED
    BY <2>1, <2>2 DEF WorkersInv, WorkersTypeOK
<1>9. ASSUME NEW w \in Workers PROVE InPlace(w)'
  <2>1. ASSUME NEW c \in starting, pick[c] = w PROVE InPlace(w)'
    <3>1. /\ worker'[w].step = IF m = "qq" THEN "start" ELSE "polling"
          /\ worker'[w].channel = c /\ c \in Channels /\ monitor'[c] = w
          /\ MonitorOf(worker'[w].bot) = m
      BY <1>1, <1>3, <1>4, <1>5, <2>1
    <3> QED
      BY <3>1 DEF InPlace, Ended, MonitorOf, Monitors
  <2>2. CASE Same(w) /\ ~\E c \in starting : pick[c] = w
    <3>1. InPlace(w)
      BY DEF WorkersInv
    <3>2. CASE worker[w].step \in {"polling", "answered", "done"}
      BY <2>2, <3>1, <3>2 DEF InPlace, Ended, Same
    <3>3. CASE worker[w].step \notin {"polling", "answered", "done"}
      <4>1. worker[w].channel \in Channels /\ worker[w].bot \in QQBots /\ monitor[worker[w].channel] = w /\ ~Ended(w)
        BY <3>1, <3>3 DEF InPlace, Ended
      <4>2. monitor'[worker[w].channel] = w
        BY <1>1, <1>2, <1>7, <4>1
      <4> QED
        BY <2>2, <3>3, <4>1, <4>2 DEF InPlace, Ended, Same
    <3> QED
      BY <3>2, <3>3
  <2> QED
    BY <1>6, <2>1, <2>2
<1>10. ASSUME NEW c \in Channels, monitor'[c] # None
       PROVE  \/ c \in starting /\ worker'[monitor'[c]].channel = c /\ MonitorOf(worker'[monitor'[c]].bot) = m
              \/ monitor'[c] = monitor[c] /\ Same(monitor[c])
  <2>1. CASE c \in starting
    BY <1>1, <1>4, <1>5, <2>1
  <2>2. CASE c \notin starting
    <3>1. monitor'[c] = monitor[c] /\ monitor[c] \in Workers
      BY <1>2, <1>7, <1>10, <2>2
    <3> QED
      BY <1>4, <1>6, <3>1
  <2> QED
    BY <2>1, <2>2
<1>11. ASSUME NEW c \in Channels, monitor'[c] # None PROVE worker'[monitor'[c]].channel = c
  BY <1>10, <1>11 DEF WorkersInv, Same
<1>12. \A n \in Monitors : \A pair \in snapshot'[n] : pair[1] # None => MonitorOf(pair[2].bot) = n
  BY DEF WorkersInv, WorkersTypeOK
<1>13. ASSUME NEW n \in Monitors, NEW c \in Channels, Sees(n, c)' PROVE Sees(n, c)
  <2>1. CASE (c \in Mine(n))'
    <3>1. monitor'[c] # None /\ MonitorOf(worker'[monitor'[c]].bot) = n
      BY <2>1 DEF Mine
    <3>2. CASE c \in starting /\ MonitorOf(worker'[monitor'[c]].bot) = m
      BY <1>3, <3>1, <3>2
    <3>3. CASE monitor'[c] = monitor[c] /\ Same(monitor[c])
      BY <3>1, <3>3 DEF Sees, Mine, Same
    <3> QED
      BY <1>10, <3>1, <3>2, <3>3
  <2>2. CASE (c \in WantedBy(n))'
    <3>1. WantedBy(n)' \subseteq WantedBy(n)
      BY DEF WantedBy, WorkersInv, WorkersTypeOK
    <3> QED
      BY <2>2, <3>1 DEF Sees
  <2> QED
    BY <1>13, <2>1, <2>2 DEF Sees
<1>14. ASSUME NEW n \in Monitors, NEW c \in Channels, Sees(n, c)' PROVE OfProvider(n, c)'
  BY <1>13, <1>14 DEF WorkersInv, OfProvider
<1>15. \A c \in Channels : ~(Sees("qq", c)' /\ Sees("weixin", c)')
  BY <1>13 DEF WorkersInv, Monitors
<1>16. ASSUME NEW w \in Workers PROVE Online(w)'
  <2>1. ASSUME NEW c \in starting, pick[c] = w PROVE Online(w)'
    BY <1>4, <1>5, <2>1 DEF Online
  <2>2. CASE Same(w)
    <3> SUFFICES ASSUME NEW c, c = worker[w].channel, worker[w].step = "online", channel'[c].owner = worker[w].owner,
                        channel'[c].bot = worker[w].bot, channel'[c].secret = worker[w].secret
                 PROVE  channel'[c].state \notin {"disconnected", "reconnecting", "error"}
      BY <2>2 DEF Online, For, Same
    <3>1. c \in Channels /\ monitor[c] = w /\ ~Ended(w) /\ Online(w)
      BY DEF WorkersInv, InPlace, Ended
    <3>2. channel'[c].state = channel[c].state
      BY <1>2, <3>1
    <3> QED
      BY <3>1, <3>2 DEF Online, For
  <2> QED
    BY <1>6, <2>1, <2>2
<1>17. \A n \in Monitors, c \in Channels : Sees(n, c)' => OfProvider(n, c)'
  BY <1>14
<1> QED
  BY <1>8, <1>9, <1>11, <1>12, <1>15, <1>16, <1>17 DEF WorkersInv

\* A pass reads channels that no other monitor has to do with.
LEMMA PassReadsKeeps ==
    ASSUME ChannelsInv, WorkersInv, NEW m \in Monitors, PassReads(m)
    PROVE  WorkersInv'
<1>1. /\ UNCHANGED <<channel, worker, monitor>>
      /\ snapshot[m] = {}
      /\ snapshot' = [snapshot EXCEPT ![m] = {<<None, NoChannel>>} \union
                         {<<c, channel[c]>> : c \in {i \in Channels : Wants(m, i)}}]
  BY DEF PassReads, bindingVars
<1>2. NoChannel \in Channel
  BY DEF NoChannel, Channel, States
<1>3. /\ snapshot \in [Monitors -> SUBSET ((Channels \union {None}) \X Channel)]
      /\ channel \in [Channels -> Channel]
      /\ None \notin Channels
  BY BindingsAssumption DEF WorkersInv, WorkersTypeOK, ChannelsInv, StoreTypeOK, BindingsAssumption
<1>4. PICK read : read = {<<None, NoChannel>>} \union
                           {<<c, channel[c]>> : c \in {i \in Channels : Wants(m, i)}}
  OBVIOUS
<1>5. read \in SUBSET ((Channels \union {None}) \X Channel)
  BY <1>2, <1>3, <1>4
<1>6. snapshot' = [snapshot EXCEPT ![m] = read]
  BY <1>1, <1>4
<1>7. /\ snapshot' \in [Monitors -> SUBSET ((Channels \union {None}) \X Channel)]
      /\ snapshot'[m] = read
      /\ \A n \in Monitors \ {m} : snapshot'[n] = snapshot[n]
  BY <1>3, <1>5, <1>6
<1>8. WorkersTypeOK'
  BY <1>1, <1>7 DEF WorkersInv, WorkersTypeOK
<1>9. ASSUME NEW pair \in read, pair[1] # None
      PROVE  \E c \in Channels : pair = <<c, channel[c]>> /\ Wants(m, c)
  BY <1>4, <1>9
<1>10. ASSUME NEW n \in Monitors, NEW pair \in snapshot'[n], pair[1] # None PROVE MonitorOf(pair[2].bot) = n
  <2>1. CASE n = m
    <3>1. PICK c \in Channels : pair = <<c, channel[c]>> /\ Wants(m, c)
      BY <1>7, <1>9, <1>10, <2>1
    <3> QED
      BY <2>1, <3>1 DEF Wants, WantedAs
  <2>2. CASE n # m
    BY <1>7, <1>10, <2>2 DEF WorkersInv
  <2> QED
    BY <2>1, <2>2
<1>11. \A n, c : (c \in Mine(n))' <=> c \in Mine(n)
  BY <1>1 DEF Mine
<1>12. ASSUME NEW n \in Monitors, NEW c \in Channels, Sees(n, c)' PROVE Sees(n, c) \/ (n = m /\ Wants(m, c))
  <2>1. CASE (c \in Mine(n))'
    BY <1>11, <2>1 DEF Sees
  <2>2. CASE (c \in WantedBy(n))'
    <3>1. PICK pair \in snapshot'[n] : pair[1] = c
      BY <2>2 DEF WantedBy
    <3>2. CASE n = m
      <4>1. PICK i \in Channels : pair = <<i, channel[i]>> /\ Wants(m, i)
        BY <1>3, <1>7, <1>9, <3>1, <3>2
      <4> QED
        BY <3>1, <3>2, <4>1
    <3>3. CASE n # m
      BY <1>3, <1>7, <3>1, <3>3 DEF Sees, WantedBy
    <3> QED
      BY <3>2, <3>3
  <2> QED
    BY <1>12, <2>1, <2>2 DEF Sees
<1>13. ASSUME NEW c \in Channels, Wants(m, c) PROVE OfProvider(m, c) /\ channel[c].bot # None
  BY <1>13 DEF Wants, WantedAs, OfProvider, ChannelsInv, Kept
<1>14. ASSUME NEW n \in Monitors, NEW c \in Channels, Sees(n, c)' PROVE OfProvider(n, c)'
  BY <1>1, <1>12, <1>13, <1>14 DEF WorkersInv, OfProvider
<1>15. ASSUME NEW c \in Channels, Sees("qq", c)', Sees("weixin", c)' PROVE FALSE
  <2>1. /\ Sees("qq", c) \/ ("qq" = m /\ Wants(m, c))
        /\ Sees("weixin", c) \/ ("weixin" = m /\ Wants(m, c))
    BY <1>12, <1>15 DEF Monitors
  <2>2. ~(Sees("qq", c) /\ Sees("weixin", c))
    BY DEF WorkersInv
  <2>3. OfProvider("qq", c) /\ OfProvider("weixin", c) /\ channel[c].bot # None
    BY <1>13, <2>1, <2>2 DEF WorkersInv, Monitors
  <2> QED
    BY <2>3 DEF OfProvider
<1>16. \A w \in Workers : InPlace(w)' /\ Online(w)'
  BY <1>1 DEF WorkersInv, InPlace, Ended, Online, For
<1>17. \A c \in Channels : monitor'[c] # None => worker'[monitor'[c]].channel = c
  BY <1>1 DEF WorkersInv
<1>18. \A n \in Monitors, c \in Channels : Sees(n, c)' => OfProvider(n, c)'
  BY <1>14
<1>19. \A n \in Monitors : \A pair \in snapshot'[n] : pair[1] # None => MonitorOf(pair[2].bot) = n
  BY <1>10
<1>20. \A c \in Channels : ~(Sees("qq", c)' /\ Sees("weixin", c)')
  BY <1>15
<1> QED
  BY <1>8, <1>16, <1>17, <1>18, <1>19, <1>20 DEF WorkersInv

\* A QQ pass replaces goroutines that have ended, and touches the state of
\* channels for which none runs.
LEMMA QQPassKeeps ==
    ASSUME ChannelsInv, WorkersInv, QQPass
    PROVE  ChannelsInv' /\ SettingsTell /\ WorkersInv'
<1> DEFINE wanted == WantedBy("qq")
           replaceable == {c \in wanted : CanReplace(c)}
           kept == Mine("qq") \ replaceable
           gone == Mine("qq") \ wanted
           cancelled == gone \union {c \in kept : Outdated("qq", c)}
           Forgotten(starting) == (replaceable \ starting) \union {c \in gone : Ended(monitor[c])}
           Full(starting, c) == /\ c \in replaceable \ starting /\ Wants("qq", c)
                                /\ Read("qq", c).secret = channel[c].secret
                                /\ Read("qq", c).bot = channel[c].bot
<1>1. PICK starting \in SUBSET replaceable :
         /\ Launch("qq", starting, cancelled, Forgotten(starting))
         /\ channel' = [c \in Channels |-> IF Full(starting, c) THEN [channel[c] EXCEPT !.state = "error"]
                                           ELSE channel[c]]
  BY Zenon DEF QQPass
<1>2. /\ snapshot' = [snapshot EXCEPT !["qq"] = {}]
      /\ UNCHANGED <<member, revision>>
  BY Zenon DEF QQPass
<1>3. ASSUME NEW c \in Channels
      PROVE  /\ channel'[c] \in Channel
             /\ channel'[c].owner = channel[c].owner /\ channel'[c].used = channel[c].used
             /\ channel'[c].bot = channel[c].bot /\ channel'[c].secret = channel[c].secret
             /\ channel'[c].enabled = channel[c].enabled
             /\ channel'[c].state # channel[c].state => CanReplace(c)
  <2>1. channel[c] \in Channel /\ "error" \in States
    BY DEF ChannelsInv, StoreTypeOK, States
  <2>2. CASE Full(starting, c)
    <3>1. channel'[c] = [channel[c] EXCEPT !.state = "error"] /\ CanReplace(c)
      BY <1>1, <2>2
    <3> QED
      BY <2>1, <3>1 DEF Channel
  <2>3. CASE ~Full(starting, c)
    <3>1. channel'[c] = channel[c]
      BY <1>1, <2>3
    <3> QED
      BY <2>1, <3>1
  <2> QED
    BY <2>2, <2>3
<1>4. channel' \in [Channels -> Channel]
  <2>1. DOMAIN channel' = Channels /\ channel' = [c \in Channels |-> channel'[c]]
    BY <1>1
  <2> QED
    BY <1>3, <2>1
<1>5. ChannelsInv' /\ SettingsTell
  BY <1>2, <1>3, <1>4, StatesStore DEF ChannelsInv, StoreTypeOK
<1>6. \A c \in Channels : c \in starting \union Forgotten(starting) /\ monitor[c] # None =>
         Ended(monitor[c]) \/ worker[monitor[c]].bot \notin QQBots
  BY <1>1 DEF CanReplace
<1>7. starting \in SUBSET WantedBy("qq") /\ "qq" \in Monitors
  BY <1>1 DEF Monitors
<1>8. WorkersInv'
  <2>1. \A c \in Channels : channel'[c].state # channel[c].state => monitor[c] = None \/ Ended(monitor[c])
    BY <1>3 DEF CanReplace
  <2> HIDE DEF cancelled, Forgotten, Full
  <2> QED
    BY <1>1, <1>2, <1>3, <1>5, <1>6, <1>7, <2>1, LaunchKeeps
<1> QED
  BY <1>5, <1>8

\* A Weixin pass replaces goroutines of its own only.
LEMMA WeixinPassKeeps ==
    ASSUME ChannelsInv, WorkersInv, WeixinPass
    PROVE  WorkersInv'
<1> DEFINE wanted == WantedBy("weixin")
           outdated == {c \in wanted : Outdated("weixin", c)}
           gone == Mine("weixin") \ wanted
           starting == outdated \union (wanted \ Mine("weixin"))
<1>1. /\ Launch("weixin", starting, gone \union outdated, gone)
      /\ snapshot' = [snapshot EXCEPT !["weixin"] = {}]
      /\ UNCHANGED bindingVars
  BY Zenon DEF WeixinPass
<1>2. UNCHANGED <<member, revision, channel>>
  BY <1>1 DEF bindingVars
<1>3. ChannelsInv'
  BY <1>2, MembersRest
<1>4. starting \in SUBSET WantedBy("weixin") /\ "weixin" \in Monitors
  BY DEF Monitors
<1>5. ASSUME NEW c \in Channels, c \in starting \union gone, monitor[c] # None
      PROVE  worker[monitor[c]].bot \notin QQBots
  <2>1. CASE c \in Mine("weixin")
    BY <2>1 DEF Mine, MonitorOf
  <2>2. CASE c \notin Mine("weixin")
    <3>1. Sees("weixin", c)
      BY <1>5, <2>2 DEF Outdated, Sees
    <3>2. c \notin Mine("qq")
      BY <3>1 DEF WorkersInv, Sees
    <3> QED
      BY <1>5, <2>2, <3>2 DEF Mine, MonitorOf
  <2> QED
    BY <2>1, <2>2
<1> HIDE DEF starting, gone, outdated
<1> QED
  BY <1>1, <1>2, <1>3, <1>4, <1>5, LaunchKeeps

\* Where a goroutine may go from where it stands.
MayGo(w, step) ==
    IF worker[w].step \in {"polling", "answered"} THEN step \in {"polling", "answered", "done"}
    ELSE step \in {"done", "start", "dialing", "online", "lost", "pausing", "closing"}

\* A goroutine goes on to `step`, with what the store makes of `state`.
LEMMA StepKeeps ==
    ASSUME ChannelsInv, WorkersInv, NEW w \in Workers, ~Ended(w), AllButStore,
           NEW step \in {"done", "start", "dialing", "online", "lost", "pausing", "closing", "polling", "answered"},
           MayGo(w, step), NEW answer \in States,
           \/ Goes(w, step)
           \/ worker' = [worker EXCEPT ![w].step = step, ![w].answer = answer],
           NEW state \in States,
           \/ UNCHANGED channel /\ step # "online"
           \/ Stores(w, state) /\ (step = "online" => state = "ready")
    PROVE  ChannelsInv' /\ SettingsTell /\ WorkersInv'
<1>1. PICK rec : rec = IF Goes(w, step) THEN [worker[w] EXCEPT !.step = step]
                       ELSE [worker[w] EXCEPT !.step = step, !.answer = answer]
  OBVIOUS
<1>2. /\ rec \in Worker /\ rec.step = step
      /\ rec.channel = worker[w].channel /\ rec.owner = worker[w].owner
      /\ rec.bot = worker[w].bot /\ rec.secret = worker[w].secret
  <2>1. worker[w] \in Worker
    BY DEF WorkersInv, WorkersTypeOK
  <2>2. CASE Goes(w, step)
    <3>1. rec = [worker[w] EXCEPT !.step = step]
      BY <1>1, <2>2
    <3> QED
      BY <2>1, <3>1 DEF Worker
  <2>3. CASE ~Goes(w, step)
    <3>1. rec = [worker[w] EXCEPT !.step = step, !.answer = answer]
      BY <1>1, <2>3
    <3> QED
      BY <2>1, <3>1 DEF Worker
  <2> QED
    BY <2>2, <2>3
<1>3. worker' = [worker EXCEPT ![w] = rec]
  <2>1. CASE Goes(w, step)
    BY <1>1, <2>1 DEF Goes
  <2>2. CASE ~Goes(w, step)
    BY <1>1, <2>2
  <2> QED
    BY <2>1, <2>2
<1>4. IF worker[w].step \in {"polling", "answered"} THEN rec.step \in {"polling", "answered", "done"}
      ELSE rec.step \notin {"polling", "answered"}
  BY <1>2 DEF MayGo
<1>5. \/ UNCHANGED channel /\ rec.step # "online"
      \/ /\ Matches(w) /\ channel' = [channel EXCEPT ![worker[w].channel].state = state]
         /\ rec.step = "online" => state = "ready"
  BY <1>2 DEF Stores
<1>6. UNCHANGED <<member, revision, monitor, snapshot>>
  BY DEF AllButStore
<1> QED
  BY <1>2, <1>3, <1>4, <1>5, <1>6, WorkerMoves

LEMMA GoroutineKeeps ==
    ASSUME ChannelsInv, WorkersInv, NEW w \in Workers, WorkerGoesOn(w)
    PROVE  ChannelsInv' /\ SettingsTell /\ WorkersInv'
<1> DEFINE Result == ChannelsInv' /\ SettingsTell /\ WorkersInv'
<1>1. /\ "" \in States /\ "connecting" \in States /\ "ready" \in States /\ "reconnecting" \in States
      /\ "disconnected" \in States
  BY DEF States
<1>2. CASE QQConnects(w)
  <2>1. ~Ended(w) /\ AllButStore /\ worker[w].step = "start"
    BY <1>2 DEF QQConnects, Ended
  <2>2. \/ Goes(w, "closing") /\ UNCHANGED channel
        \/ Goes(w, "dialing") /\ Stores(w, "connecting")
        \/ Goes(w, "done") /\ UNCHANGED channel
    BY <1>2 DEF QQConnects, StoreFails, Ends
  <2> QED
    BY <1>1, <2>1, <2>2, StepKeeps DEF MayGo
<1>3. CASE QQReady(w)
  <2>1. ~Ended(w) /\ AllButStore /\ worker[w].step = "dialing"
    BY <1>3 DEF QQReady, Ended
  <2>2. \/ Goes(w, "online") /\ Stores(w, "ready")
        \/ Goes(w, "lost") /\ UNCHANGED channel
    BY <1>3 DEF QQReady, StoreFails
  <2> QED
    BY <1>1, <2>1, <2>2, StepKeeps DEF MayGo
<1>4. CASE QQLost(w)
  BY <1>1, <1>4, StepKeeps DEF MayGo, QQLost, Ended
<1>5. CASE QQReconnects(w)
  <2>1. ~Ended(w) /\ AllButStore /\ worker[w].step = "lost"
    BY <1>5 DEF QQReconnects, Ended
  <2>2. \/ Goes(w, "closing") /\ UNCHANGED channel
        \/ Goes(w, "pausing") /\ Stores(w, "reconnecting")
        \/ Goes(w, "done") /\ UNCHANGED channel
    BY <1>5 DEF QQReconnects, StoreFails, Ends
  <2> QED
    BY <1>1, <2>1, <2>2, StepKeeps DEF MayGo
<1>6. CASE QQPauses(w)
  <2>1. ~Ended(w) /\ AllButStore /\ worker[w].step = "pausing" /\ UNCHANGED channel
    BY <1>6 DEF QQPauses, Ended
  <2>2. Goes(w, "start") \/ Goes(w, "closing")
    BY <1>6 DEF QQPauses
  <2> QED
    BY <1>1, <2>1, <2>2, StepKeeps DEF MayGo
<1>7. CASE QQCloses(w)
  <2>1. ~Ended(w) /\ AllButStore /\ worker[w].step = "closing" /\ Goes(w, "done")
    BY <1>7 DEF QQCloses, Ends, Ended
  <2>2. Stores(w, "disconnected") \/ UNCHANGED channel
    BY <1>7 DEF QQCloses, StoreFails
  <2> QED
    BY <1>1, <2>1, <2>2, StepKeeps DEF MayGo
<1>8. ASSUME NEW state \in {"ready", "reconnecting", "expired"}, WeixinAnswered(w, state) PROVE Result
  <2>1. ~Ended(w) /\ AllButStore /\ worker[w].step = "polling" /\ UNCHANGED channel
    BY <1>8 DEF WeixinAnswered, Ended
  <2>2. PICK step \in {"answered", "done"}, answer \in States :
           worker' = [worker EXCEPT ![w].step = step, ![w].answer = answer]
    <3>1. /\ (IF worker[w].live THEN "answered" ELSE "done") \in {"answered", "done"}
          /\ (IF worker[w].live THEN state ELSE "") \in States
      BY DEF States
    <3> QED
      BY <1>8, <3>1 DEF WeixinAnswered
  <2> QED
    BY <1>1, <2>1, <2>2, StepKeeps DEF MayGo
<1>9. CASE WeixinStores(w)
  <2>1. PICK state : state = worker[w].answer
    OBVIOUS
  <2>2. ~Ended(w) /\ AllButStore /\ worker[w].step = "answered" /\ state \in States
    BY <1>9, <2>1 DEF WeixinStores, Ended, WorkersInv, WorkersTypeOK, Worker
  <2>3. PICK step \in {"polling", "done"} :
           /\ worker' = [worker EXCEPT ![w].step = step, ![w].answer = ""]
           /\ Stores(w, state) \/ UNCHANGED channel
    BY <1>9, <2>1 DEF WeixinStores, StoreFails
  <2> QED
    BY <1>1, <2>2, <2>3, StepKeeps DEF MayGo
<1> QED
  BY <1>2, <1>3, <1>4, <1>5, <1>6, <1>7, <1>8, <1>9 DEF WorkerGoesOn

\* Cancelling goroutines is all that a revocation or the stop of a monitor does
\* to the monitors.
LEMMA CancelsKeep ==
    ASSUME ChannelsInv, WorkersInv, BindingStep, UNCHANGED <<monitor, snapshot>>,
           worker' \in [Workers -> Worker],
           \A w \in Workers : worker'[w] \in {worker[w], [worker[w] EXCEPT !.live = FALSE]}
    PROVE  WorkersInv'
BY CancelledSame, WorkersRest DEF BindingStep

LEMMA StopKeeps ==
    ASSUME ChannelsInv, SessionsInv, WorkersInv, NEW m \in Monitors, StopMonitor(m)
    PROVE  BindingStep /\ WorkersInv'
<1>1. /\ UNCHANGED <<member, revision, channel, dialog, session, revoked, monitor, snapshot>>
      /\ worker' = [w \in Workers |-> IF MonitorOf(worker[w].bot) = m
                                        THEN [worker[w] EXCEPT !.live = FALSE] ELSE worker[w]]
  BY DEF StopMonitor
<1>2. BindingStep
  BY <1>1, MembersRest, DialogsRest DEF BindingStep
<1>3. \A w \in Workers : worker'[w] \in {worker[w], [worker[w] EXCEPT !.live = FALSE]}
  BY <1>1
<1>4. worker' \in [Workers -> Worker]
  <2>1. \A w \in Workers : worker'[w] \in Worker
    BY <1>3, CancelledSame
  <2> QED
    BY <1>1, <2>1
<1> QED
  BY <1>1, <1>2, <1>3, <1>4, CancelsKeep

LEMMA RevokedKeeps ==
    ASSUME ChannelsInv, SessionsInv, WorkersInv, NEW u \in Users, Revoked(u), GatewayRevoked(u),
           UNCHANGED <<monitor, snapshot>>
    PROVE  BindingStep /\ WorkersInv'
<1>1. BindingStep
  BY RevokedSteps
<1>2. worker \in [Workers -> Worker]
  BY DEF WorkersInv, WorkersTypeOK
<1>3. CASE UNCHANGED worker
  BY <1>1, <1>2, <1>3, CancelsKeep
<1>4. CASE worker' = [w \in Workers |->
                         IF \E c \in Mine("qq") : monitor[c] = w /\ worker[w].owner = u
                           THEN [worker[w] EXCEPT !.live = FALSE] ELSE worker[w]]
  <2>1. \A w \in Workers : worker'[w] \in {worker[w], [worker[w] EXCEPT !.live = FALSE]}
    BY <1>4
  <2>2. \A w \in Workers : worker'[w] \in Worker
    BY <2>1, CancelledSame
  <2>3. worker' \in [Workers -> Worker]
    BY <1>4, <2>2
  <2> QED
    BY <1>1, <2>1, <2>3, CancelsKeep
<1> QED
  BY <1>1, <1>3, <1>4 DEF GatewayRevoked

LEMMA NextKeeps ==
    ASSUME ChannelsInv, SessionsInv, WorkersInv, [Next]_vars
    PROVE  ChannelsInv' /\ SessionsInv' /\ WorkersInv' /\ SeenBind
<1> DEFINE Result == ChannelsInv' /\ SessionsInv' /\ WorkersInv' /\ SeenBind
<1>1. ASSUME BindingStep, WorkersInv' PROVE Result
  BY <1>1, BindingStepKeeps
<1>2. ASSUME ChannelsInv', SettingsTell, WorkersInv', UNCHANGED <<dialog, session, revoked>> PROVE Result
  <2>1. DialogsGoOn
    BY <1>2, DialogsRest
  <2>2. SessionsInv'
    BY <1>2, <2>1, SessionsKept
  <2>3. SeenBind
    BY <1>2 DEF SeenBind
  <2> QED
    BY <1>2, <2>2, <2>3
<1>3. ASSUME BindingStep, UNCHANGED <<worker, monitor, snapshot>> PROVE Result
  <2>1. worker' \in [Workers -> Worker]
    BY <1>3 DEF WorkersInv, WorkersTypeOK
  <2>2. WorkersInv'
    BY <1>3, <2>1, CancelsKeep
  <2> QED
    BY <1>1, <1>3, <2>2
<1>4. ASSUME NEW m \in Monitors, PassReads(m) PROVE Result
  <2>1. ChannelsInv' /\ SettingsTell
    BY <1>4, MembersRest DEF PassReads, bindingVars
  <2> QED
    BY <1>2, <1>4, <2>1, PassReadsKeeps DEF PassReads, bindingVars
<1>5. CASE QQPass
  <2>1. UNCHANGED <<dialog, session, revoked>>
    BY Zenon, <1>5 DEF QQPass
  <2> QED
    BY <1>2, <1>5, <2>1, QQPassKeeps
<1>6. CASE WeixinPass
  <2>1. UNCHANGED <<member, revision, channel, dialog, session, revoked>>
    <3>1. UNCHANGED bindingVars
      BY Zenon, <1>6 DEF WeixinPass
    <3> QED
      BY <3>1 DEF bindingVars
  <2>2. ChannelsInv' /\ SettingsTell
    BY <2>1, MembersRest
  <2> QED
    BY <1>2, <1>6, <2>1, <2>2, WeixinPassKeeps
<1>7. ASSUME NEW w \in Workers, WorkerGoesOn(w) PROVE Result
  <2>1. UNCHANGED <<dialog, session, revoked>>
    BY <1>7 DEF WorkerGoesOn, QQConnects, QQReady, QQLost, QQReconnects, QQPauses, QQCloses,
                WeixinAnswered, WeixinStores, AllButStore
  <2> QED
    BY <1>2, <1>7, <2>1, GoroutineKeeps
<1>8. ASSUME NEW m \in Monitors, StopMonitor(m) PROVE Result
  BY <1>1, <1>8, StopKeeps
<1>9. CASE (Begins \/ \E d \in Dialogs : DialogGoesOn(d)) /\ UNCHANGED <<worker, monitor, snapshot>>
  BY <1>3, <1>9, BeginSteps, DialogSteps
<1>10. ASSUME NEW u \in Users, Revoked(u), GatewayRevoked(u), UNCHANGED <<monitor, snapshot>> PROVE Result
  BY <1>1, <1>10, RevokedKeeps
<1>11. CASE BindingActs /\ UNCHANGED <<worker, monitor, snapshot>>
  BY <1>3, <1>11, ActSteps
<1>12. CASE UNCHANGED vars
  <2>1. UNCHANGED bindingVars /\ UNCHANGED <<worker, monitor, snapshot>>
    BY <1>12 DEF vars, gatewayVars
  <2> QED
    BY <1>3, <2>1, RestSteps
<1> QED
  BY <1>4, <1>5, <1>6, <1>7, <1>8, <1>9, <1>10, <1>11, <1>12 DEF Next, Passes

\* The inductive invariant of the settings, the dialogs and the monitors.
THEOREM GatewaysInductive == Spec => [](ChannelsInv /\ SessionsInv /\ WorkersInv)
<1>1. GatewaysInit => ChannelsInv /\ SessionsInv /\ WorkersInv
  BY InitChannels, InitSessions, InitWorkers DEF GatewaysInit
<1>2. ChannelsInv /\ SessionsInv /\ WorkersInv /\ [Next]_vars => (ChannelsInv /\ SessionsInv /\ WorkersInv)'
  BY NextKeeps
<1> QED
  BY <1>1, <1>2, PTL DEF Spec

\* While a gateway session is online with a channel's credentials, the channel
\* does not show that it is disconnected: a goroutine that was cancelled is
\* replaced only when it has ended, and so reports nothing late
\* (QQMonitor.reconcile, UpdateQQConnection).
THEOREM OnlineBotsShow == Spec => []OnlineShows
<1>1. WorkersInv => OnlineShows
  BY DEF WorkersInv, Online, OnlineShows, Matches
<1> QED
  BY <1>1, GatewaysInductive, PTL

\* No two goroutines of the QQ monitor are of one channel, cancelled ones included.
OneRunsAChannel ==
    \A v, w \in Workers :
        /\ ~Ended(v) /\ ~Ended(w) /\ worker[v].channel = worker[w].channel
        /\ worker[v].bot \in QQBots /\ worker[w].bot \in QQBots
        => v = w

\* One goroutine of the QQ monitor runs for a channel at any time, however often
\* the channel is edited, disabled and enabled: reconcile waits for the one it
\* cancelled before it starts another (QQMonitor.reconcile).
THEOREM GoroutinesDoNotMeet == Spec => []OneRunsAChannel
<1>1. WorkersInv => OneRunsAChannel
  BY OneRuns DEF OneRunsAChannel
<1> QED
  BY <1>1, GatewaysInductive, PTL

\* What the monitors report leaves the settings as the dialogs expect them: bots
\* stay unique and bindings are of what was seen, while the monitors write the
\* states of the same channels.
THEOREM BindingsUndisturbed == Spec => ([]QQBotsUnique /\ BindsWhatWasSeen)
<1>1. ChannelsInv => QQBotsUnique
  BY DEF ChannelsInv
<1>2. ChannelsInv /\ SessionsInv /\ WorkersInv /\ [Next]_vars =>
        [\A d \in Dialogs : dialog'[d].bound /\ ~dialog[d].bound =>
            /\ d \notin revoked
            /\ dialog[d].seen = Config(Owner(d))]_bindingVars
  BY NextKeeps DEF SeenBind
<1> QED
  BY <1>1, <1>2, GatewaysInductive, PTL DEF Spec, BindsWhatWasSeen
=============================================================================
