------------------------------ MODULE Ingestion ------------------------------
(***************************************************************************)
(* Mail to a list becomes a task of it (cloudflare-worker/worker.mjs and   *)
(* email-ingestion.module.ts).  The mail worker hands a mail to the        *)
(* webhook and waits; whatever goes wrong, it rejects the mail, and its    *)
(* sender may send it again.                                               *)
(***************************************************************************)
EXTENDS TaskTree

CONSTANT Mails   \* their number, and what each is: where to and from whom

VARIABLES
  mail,       \* mail -> its address, its sender, where it is, and history: the tasks it
              \* made and how often it was rejected
  metadata    \* the tasks with a row on the mail they come from

mailVars == <<mail, metadata>>

MailRows ==
  [to : Lists, from : Users, state : {"sent", "taken", "accepted", "rejected"},
   made : Seq(Tasks), rejections : Nat]

(* What a request knows that makes a task of a mail, and then files it. *)
MailRequests ==
  [at : {"mail:task"}, by : Users,
   on : [mail : Mails, list : Lists, parent : {Null}, assignee : Users \cup {Null}]]
  \cup [at : {"mail:metadata"}, by : Users, on : [mail : Mails, task : Tasks]]

ASSUME NullIsNoMail == Null \notin MailRows \cup MailRequests

InitMails == mail = [m \in Mails |-> Null] /\ metadata = {}

MetadataFollows == metadata' = {t \in metadata : task'[t] # Null} /\ UNCHANGED mail

(* Mutant: the mail worker does not look at the answer. *)
EndsUnseen(m, ok) == [mail EXCEPT ![m].state = "accepted"]

(* The sender hears nothing of an accepted mail, and of a rejected one that it was. *)
Ends(m, ok) ==
  [mail EXCEPT ![m].state = IF ok THEN "accepted" ELSE "rejected",
               ![m].rejections = IF ok THEN @ ELSE @ + 1]

-----------------------------------------------------------------------------
(* A mail is sent; a rejected one may be sent again. *)
SendMail(m, l, u) ==
  /\ served < MaxRequests
  /\ \/ mail[m] = Null /\ mail' = [mail EXCEPT ![m] = [to |-> l, from |-> u, state |-> "sent", made |-> <<>>, rejections |-> 0]]
     \/ mail[m] # Null /\ mail[m].state = "rejected" /\ mail' = [mail EXCEPT ![m].state = "sent"]
  /\ UNCHANGED <<request, served, metadata, taskVars>>

(* The webhook finds the list and its creator; an active member's mail is the member's,
   and the member's task unless the list has a default assignee. *)
Ingest(h, m) ==
  /\ Free(h) /\ mail[m] # Null /\ mail[m].state = "sent"
  /\ \/ /\ list[mail[m].to] = Null
        /\ mail' = Ends(m, FALSE) /\ served' = served + 1 /\ UNCHANGED <<request, taskVars>>
     \/ /\ list[mail[m].to] # Null
        /\ LET l == mail[m].to
               sender == Admitted(mail[m].from)
           IN  \E a \in {IF sender THEN mail[m].from ELSE Null} \cup {u \in Users : member[u] # Null} :
                 Call(h, IF sender THEN mail[m].from ELSE list[l], "mail:task",
                      [mail |-> m, list |-> l, parent |-> Null, assignee |-> a])
        /\ mail' = [mail EXCEPT ![m].state = "taken"]
  /\ UNCHANGED metadata

MailTask(h) ==
  /\ At(h, "mail:task")
  /\ LET m == On(h).mail
     IN  \/ /\ list[On(h).list] # Null
            /\ \E t \in Tasks \ used :
                 /\ Store([task EXCEPT ![t] = NewTask(h, On(h).assignee)]) /\ used' = used \cup {t}
                 /\ mail' = [mail EXCEPT ![m].made = Append(@, t)]
                 /\ Await(h, [at |-> "mail:metadata", by |-> By(h), on |-> [mail |-> m, task |-> t]])
         \/ /\ list[On(h).list] = Null \/ Tasks \subseteq used
            /\ mail' = Ends(m, FALSE) /\ Answer(h) /\ UNCHANGED <<task, used, clock, since>>
  /\ UNCHANGED <<list, access, metadata>>

(* The metadata refer to the task.  The answer may be lost on the way to the worker. *)
MailMetadata(h) ==
  /\ At(h, "mail:metadata") /\ Answer(h)
  /\ metadata' = IF Exists(On(h).task) THEN metadata \cup {On(h).task} ELSE metadata
  /\ \E ok \in {Exists(On(h).task), FALSE} : mail' = Ends(On(h).mail, ok)
  /\ UNCHANGED taskVars

(* A worker whose webhook dies gets no answer. *)
MailsCutOff ==
  /\ mail' = [m \in Mails |-> IF mail[m] # Null /\ mail[m].state = "taken" THEN Ends(m, FALSE)[m] ELSE mail[m]]
  /\ UNCHANGED metadata

-----------------------------------------------------------------------------
Filed(t) == Exists(t) => t \in metadata

(* No mail is lost and none is doubled behind its sender's back: a mail is on its way,
   in the hands of a request, rejected, or accepted; an accepted one has become a task
   with its metadata (unless the task was deleted since), and it has made at most one
   task more than its sender was told it had been rejected. *)
NoMailIsLost ==
  \A m \in Mails : mail[m] # Null =>
    /\ mail[m].state = "taken" =>
         \E h \in Handlers : request[h] # Null /\ request[h].at \in {"mail:task", "mail:metadata"} /\ On(h).mail = m
    /\ mail[m].state = "accepted" => Len(mail[m].made) > 0 /\ Filed(mail[m].made[Len(mail[m].made)])
    /\ Len(mail[m].made) <= mail[m].rejections + 1
=============================================================================
