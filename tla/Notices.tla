------------------------------- MODULE Notices -------------------------------
(***************************************************************************)
(* What members are told: their settings, the feed, and the push messages  *)
(* to the devices they subscribed (notifications.module.ts,                *)
(* notification-prefs.ts, push.module.ts, and the notices of               *)
(* tasks.module.ts). Calls, and the notices of the workers, pass the same  *)
(* dispatch and are not modelled here; what silences a push, quiet hours   *)
(* or the open screen, may or may not be the case.                         *)
(*                                                                         *)
(* What happens in one request, a comment or a change of a task, is an     *)
(* event, known by the request's number.  Of the feed and the pushes, what *)
(* is about the watched event is kept.                                     *)
(***************************************************************************)
EXTENDS TaskTree

CONSTANTS
  Devices,   \* the endpoints browsers subscribe with
  Patches    \* the changes of settings a client sends: setting -> BOOLEAN, for some

Channels == {"mention", "task_comment", "task_assigned", "task_status", "chat"}
Settings == {"push", "inApp"} \cup Channels
Prefs == [push : BOOLEAN, inApp : BOOLEAN, channels : [Channels -> BOOLEAN]]
PrefsRequests == [at : {"prefs"}, by : Users, on : [next : Prefs]]

(* Whom a request is telling, and how things stood at an event. *)
RecipientRows == [to : Users, channel : Channels, nth : 1..2, seen : Prefs \cup {Null}]
TellRequests ==
  [at : {"tell"}, by : Users, on : [event : Nat, first : SUBSET RecipientRows, next : SUBSET RecipientRows]]
EventRows ==
  [channel : [Users -> Channels \cup {Null}], twice : Users \cup {Null}, prefs : [Users -> Prefs],
   active : SUBSET Users, device : [Devices -> Users \cup {Null}], changed : SUBSET Users, moved : SUBSET Devices]

ASSUME PatchesAreSettings == \A patch \in Patches : \A s \in DOMAIN patch : patch[s] \in BOOLEAN
ASSUME NullIsNoPatch == Null \notin PrefsRequests
ASSUME NullIsNoNotice == Null \notin Users \cup Channels \cup Prefs \cup TellRequests \cup EventRows

VARIABLES
  prefs,         \* member -> settings
  asked,         \* history: member -> setting -> what the member last asked for; Null once
                 \* two changes of a member's settings overlapped
  notice,        \* member -> how many rows in the feed are about the watched event
  subscription,  \* device -> the member it belongs to, or Null
  gone,          \* external: the devices the push service has forgotten
  pushing,       \* the pushes under way, which no handler waits for
  rung,          \* device -> how often it rang for the watched event
  watched,
  event          \* history: how things stood when the watched event happened, or Null

told == <<notice, pushing, rung, watched, event>>
noticeVars == <<prefs, asked, subscription, gone, told>>

Event == served + 1

PREFS_DEFAULTS == [push |-> TRUE, inApp |-> TRUE, channels |-> [c \in Channels |-> TRUE]]

Says(p, s) == IF s = "push" THEN p.push ELSE IF s = "inApp" THEN p.inApp ELSE p.channels[s]

InitNotices(devices, push, w) ==
  /\ prefs = [u \in Users |-> [PREFS_DEFAULTS EXCEPT !.push = push]]
  /\ asked = [u \in Users |-> [s \in Settings |-> Says(prefs[u], s)]]
  /\ subscription = devices /\ gone = {} /\ pushing = {}
  /\ notice = [u \in Users |-> 0] /\ rung = [d \in Devices |-> 0]
  /\ watched = w /\ event = Null

-----------------------------------------------------------------------------
(* Changing the settings: they are read, what the patch gives is put over them, and the
   whole is written. *)
Over(patch, s, else) == IF s \in DOMAIN patch THEN patch[s] ELSE else

(* Mutant: the channels are put over the defaults. *)
MergedOverDefaults(current, patch) ==
  [push |-> Over(patch, "push", current.push), inApp |-> Over(patch, "inApp", current.inApp),
   channels |-> [c \in Channels |-> Over(patch, c, TRUE)]]

Merged(current, patch) ==
  [push |-> Over(patch, "push", current.push), inApp |-> Over(patch, "inApp", current.inApp),
   channels |-> [c \in Channels |-> Over(patch, c, current.channels[c])]]

Changing(u) == \E h \in Handlers : At(h, "prefs") /\ By(h) = u

UpdatePrefs(h, u, patch) ==
  /\ Admitted(u) /\ Call(h, u, "prefs", [next |-> Merged(prefs[u], patch)])
  /\ asked' = [asked EXCEPT ![u] =
                IF @ = Null \/ Changing(u) THEN Null ELSE [s \in Settings |-> Over(patch, s, @[s])]]
  /\ UNCHANGED <<prefs, subscription, gone, told>>

(* History: the members and the devices of which something changed since the event. *)
Touch(members, devices) ==
  event' = IF event = Null THEN Null
           ELSE [event EXCEPT !.changed = @ \cup members, !.moved = @ \cup devices]

PrefsStore(h) ==
  /\ At(h, "prefs") /\ Answer(h)
  /\ prefs' = [prefs EXCEPT ![By(h)] = On(h).next] /\ Touch({By(h)}, {})
  /\ UNCHANGED <<asked, subscription, gone, notice, pushing, rung, watched, taskVars>>

(* A member comes or goes. *)
EventsFollow ==
  /\ Touch({u \in Users : member'[u] # member[u]}, {})
  /\ UNCHANGED <<prefs, asked, subscription, gone, notice, pushing, rung, watched>>

-----------------------------------------------------------------------------
(* Subscribing: a device belongs to the last member who did.  A browser whose device is
   forgotten subscribes with another. *)
Subscribe(h, u, d) == Admitted(u) /\ d \notin gone /\ Call(h, u, "subscribe", [device |-> d, to |-> u])
Unsubscribe(h, u, d) == Admitted(u) /\ Call(h, u, "subscribe", [device |-> d, to |-> Null])

DeviceStore(h) ==
  /\ At(h, "subscribe") /\ Answer(h)
  /\ subscription' = [subscription EXCEPT ![On(h).device] = On(h).to] /\ Touch({}, {On(h).device})
  /\ UNCHANGED <<prefs, asked, gone, notice, pushing, rung, watched, taskVars>>

Forget(d) ==
  /\ d \notin gone /\ subscription[d] # Null
  /\ gone' = gone \cup {d} /\ Touch({}, {d})
  /\ UNCHANGED <<request, served, prefs, asked, subscription, notice, pushing, rung, watched, taskVars>>

(* sendTo. *)
PushRead(p) ==
  /\ p.at = "read"
  /\ LET subs == {d \in Devices : subscription[d] = p.to}
     IN  pushing' = (pushing \ {p}) \cup
                      IF subs = {} THEN {} ELSE {[p EXCEPT !.at = "send", !.devices = subs]}
  /\ UNCHANGED <<notice, rung, event>>

(* Of the devices that are not gone any may fail otherwise: nothing is done about it. *)
PushSend(p) ==
  /\ p.at = "send"
  /\ \E failed \in SUBSET (p.devices \ gone) :
       /\ rung' = [d \in Devices |-> IF p.event = watched /\ d \in p.devices \ (gone \cup failed)
                                       THEN rung[d] + 1 ELSE rung[d]]
       /\ Touch({}, IF p.event = watched THEN failed ELSE {})
  /\ pushing' = (pushing \ {p}) \cup
                  IF p.devices \cap gone = {} THEN {}
                  ELSE {[p EXCEPT !.at = "prune", !.devices = @ \cap gone]}
  /\ UNCHANGED notice

PushPrune(p) ==
  /\ p.at = "prune" /\ pushing' = pushing \ {p}
  /\ subscription' = [d \in Devices |-> IF d \in p.devices THEN Null ELSE subscription[d]]
  /\ UNCHANGED <<notice, rung, event>>

Pushes ==
  /\ \E p \in pushing : PushPrune(p) \/ ((PushRead(p) \/ PushSend(p)) /\ UNCHANGED subscription)
  /\ UNCHANGED <<request, served, prefs, asked, gone, watched, taskVars>>

-----------------------------------------------------------------------------
(* Telling.  Those to tell first are told at the same time, then those to tell next:
   a member, by a channel, as the nth in the list, with the settings that were read. *)
Recipient(u, channel, nth) == [to |-> u, channel |-> channel, nth |-> nth, seen |-> Null]
Recipients(us, channel) == {Recipient(u, channel, 1) : u \in us}

Tell(h, e, first, next) ==
  IF first \cup next = {} THEN Answer(h)
  ELSE Await(h, [at |-> "tell", by |-> By(h),
                 on |-> IF first = {} THEN [event |-> e, first |-> next, next |-> {}]
                        ELSE [event |-> e, first |-> first, next |-> next]])

(* The push decision.  "silent": quiet hours, or the open screen. *)
Ring(h, r, p, silent) ==
  IF p.push /\ p.channels[r.channel] /\ ~silent
    THEN /\ pushing' = pushing \cup {[at |-> "read", event |-> On(h).event, to |-> r.to, nth |-> r.nth,
                                      devices |-> {}]}
         /\ UNCHANGED event
    ELSE /\ UNCHANGED pushing
         /\ IF silent /\ On(h).event = watched THEN Touch({}, {d \in Devices : subscription[d] = r.to})
            ELSE UNCHANGED event

InFeed(r, p) == p.inApp /\ p.channels[r.channel]

WantsRow(r) == Admitted(r.to) /\ InFeed(r, prefs[r.to])

DispatchRead(h, r) ==
  /\ r.seen = Null
  /\ LET others == On(h).first \ {r}
     IN  \/ ~Admitted(r.to) /\ Tell(h, On(h).event, others, On(h).next) /\ UNCHANGED <<pushing, event>>
         \/ /\ WantsRow(r)
            /\ Tell(h, On(h).event, others \cup {[r EXCEPT !.seen = prefs[r.to]]}, On(h).next)
            /\ UNCHANGED <<pushing, event>>
         \/ /\ Admitted(r.to) /\ ~WantsRow(r)
            /\ Tell(h, On(h).event, others, On(h).next)
            /\ \E silent \in BOOLEAN : Ring(h, r, prefs[r.to], silent)
  /\ UNCHANGED <<notice, rung>>

DispatchWrite(h, r) ==
  /\ r.seen # Null
  /\ notice' = IF On(h).event = watched THEN [notice EXCEPT ![r.to] = @ + 1] ELSE notice
  /\ Tell(h, On(h).event, On(h).first \ {r}, On(h).next)
  /\ \E silent \in BOOLEAN : Ring(h, r, r.seen, silent)
  /\ UNCHANGED rung

Dispatch(h) ==
  /\ At(h, "tell") /\ \E r \in On(h).first : DispatchRead(h, r) \/ DispatchWrite(h, r)
  /\ UNCHANGED <<prefs, asked, subscription, gone, watched, taskVars>>

-----------------------------------------------------------------------------
(* History: an event happens, of which the members concerned are to be told by a
   channel each; "twice" is told two times. *)
Happens(e, concerned, twice) ==
  event' = IF e # watched THEN event
           ELSE [channel |-> concerned, twice |-> twice, prefs |-> prefs, active |-> {u \in Users : Admitted(u)},
                 device |-> subscription, changed |-> {}, moved |-> gone]

Concerns(us, channel) == [u \in Users |-> IF u \in us THEN channel ELSE Null]

DoesNotHappen(e) == event' = IF e = watched THEN Null ELSE event

(* From the request's arrival until everybody is told. *)
Telling ==
  \/ \E h \in Handlers : /\ request[h] # Null /\ "on" \in DOMAIN request[h] /\ "event" \in DOMAIN On(h)
                         /\ On(h).event = watched
  \/ \E p \in pushing : p.event = watched

(* notifyAssigned and notifyStatusChanged go on after the answer to the request that
   has just changed the task. *)
Announce(h, u, us, channel) ==
  /\ us # {} /\ Call(h, u, "tell", [event |-> Event, first |-> Recipients(us, channel), next |-> {}])
  /\ Happens(Event, Concerns(us, channel), Null)
  /\ UNCHANGED <<prefs, asked, subscription, gone, notice, pushing, rung, watched>>

NotifyAssigned(h, u, t) ==
  MayEdit(u, t) /\ Announce(h, u, {task[t].assignee} \ {Null, u}, "task_assigned")

NotifyStatusChanged(h, u, t) ==
  MayChangeStatus(u, t) /\ Announce(h, u, {task[t].creator, task[t].assignee} \ {Null, u}, "task_status")

-----------------------------------------------------------------------------
NoticesCall(h) ==
  Free(h) /\ \E u \in Users :
    \/ \E patch \in Patches : UpdatePrefs(h, u, patch)
    \/ /\ \E d \in Devices : Subscribe(h, u, d) \/ Unsubscribe(h, u, d)
       /\ UNCHANGED noticeVars
    \/ \E t \in Tasks : NotifyAssigned(h, u, t) \/ NotifyStatusChanged(h, u, t)

NoticesContinue(h) == PrefsStore(h) \/ DeviceStore(h) \/ Dispatch(h)

(* Who is being told, or was to be, never hears of it. *)
NoticesCutOff ==
  /\ pushing' = {}
  /\ event' = IF Telling THEN Null ELSE event
  /\ asked' = [u \in Users |-> IF asked[u] # Null /\ Changing(u)
                                 THEN [s \in Settings |-> Says(prefs[u], s)] ELSE asked[u]]
  /\ UNCHANGED <<prefs, subscription, gone, notice, rung, watched>>

-----------------------------------------------------------------------------
(* What a member asked for stays, whatever is changed later: a channel turned off does
   not come back with the next patch.  Two patches at a time can undo each other. *)
PatchesAreKept ==
  \A u \in Users : asked[u] # Null /\ ~Changing(u) =>
    \A s \in Settings : Says(prefs[u], s) = asked[u][s]

Wanted(u, s) ==
  LET c == event.channel[u]
  IN  c # Null /\ u \in event.active /\ Says(event.prefs[u], s) /\ Says(event.prefs[u], c)

Times(u, s) == IF ~Wanted(u, s) THEN 0 ELSE IF u = event.twice THEN 2 ELSE 1

(* Once an event has been told, everybody concerned who wanted to know has it in the
   feed, once, and on each device, once, and nobody else has; whoever changed the
   settings or left, and a device that changed hands, failed or was silenced in the
   meantime, may or may not.  The one exception is a comment on a task that its creator
   is also assigned to. *)
EveryoneIsTold ==
  event # Null /\ ~Telling =>
    \A u \in Users \ event.changed :
      /\ notice[u] = Times(u, "inApp")
      /\ \A d \in Devices \ event.moved : event.device[d] = u => rung[d] = Times(u, "push")
=============================================================================
