----------------------------- MODULE Attachments -----------------------------
(***************************************************************************)
(* The files of tasks: a row in the database and an object in the store    *)
(* (attachments.module.ts, r2-storage.ts).  No transaction spans the two.  *)
(***************************************************************************)
EXTENDS TaskTree

CONSTANT Files   \* the storage keys; one is never used twice

VARIABLES
  attachment,   \* file -> the task it belongs to and who uploaded it, or Null
  object,       \* the files in the store
  removing      \* history: the files whose removal has begun

attachmentVars == <<attachment, object, removing>>

InitAttachments == attachment = [f \in Files |-> Null] /\ object = {} /\ removing = {}

(* The rows go with their task; the objects stay. *)
AttachmentsFollow ==
  /\ attachment' = [f \in Files |-> IF attachment[f] # Null /\ task'[attachment[f].task] = Null
                                      THEN Null ELSE attachment[f]]
  /\ UNCHANGED <<object, removing>>

-----------------------------------------------------------------------------
MayAttach(u, t) ==   \* canAttach
  /\ Admitted(u) /\ Exists(t) /\ task[t].deleted = Null
  /\ IsAdmin(u) \/ u \in {task[t].creator, task[t].assignee}

Upload(h, u, t) ==
  MayAttach(u, t) /\ Call(h, u, "file:put", [task |-> t]) /\ UNCHANGED attachmentVars

ToRow(h, f) == Await(h, [request[h] EXCEPT !.at = "file:row", !.on = [task |-> @.task, file |-> f]])

(* Mutant: a failure of the store is logged, as it is when deleting. *)
UploadPutQuietly(h) ==
  /\ At(h, "file:put")
  /\ \E f \in Files \ used :
       /\ used' = used \cup {f} /\ object' \in {object, object \cup {f}} /\ ToRow(h, f)
  /\ UNCHANGED <<list, access, task, clock, since, attachment, removing>>

(* The object first; when the store refuses it the request fails. *)
UploadPut(h) ==
  /\ At(h, "file:put")
  /\ \/ \E f \in Files \ used :
          /\ used' = used \cup {f} /\ object' = object \cup {f} /\ ToRow(h, f)
     \/ Answer(h) /\ UNCHANGED <<used, object>>
  /\ UNCHANGED <<list, access, task, clock, since, attachment, removing>>

(* Then the row, if the task is still there: otherwise the object is left behind. *)
UploadRow(h) ==
  /\ At(h, "file:row") /\ Answer(h)
  /\ attachment' = IF Exists(On(h).task)
                     THEN [attachment EXCEPT ![On(h).file] = [task |-> On(h).task, by |-> By(h)]]
                     ELSE attachment
  /\ UNCHANGED <<object, removing, taskVars>>

RemoveFile(h, u, f) ==
  /\ Admitted(u) /\ attachment[f] # Null /\ (IsAdmin(u) \/ attachment[f].by = u)
  /\ Call(h, u, "file:delete", [file |-> f]) /\ UNCHANGED attachmentVars

(* The object first, here too; a failure of the store is only logged. *)
RemoveObject(h) ==
  /\ At(h, "file:delete")
  /\ object' \in {object, object \ {On(h).file}} /\ removing' = removing \cup {On(h).file}
  /\ Await(h, [request[h] EXCEPT !.at = "file:unlink"])
  /\ UNCHANGED <<attachment, taskVars>>

RemoveRow(h) ==
  /\ At(h, "file:unlink") /\ Answer(h)
  /\ attachment' = [attachment EXCEPT ![On(h).file] = Null]
  /\ UNCHANGED <<object, removing, taskVars>>

-----------------------------------------------------------------------------
AttachmentsCall(h) ==
  Free(h) /\ \E u \in Users :
    (\E t \in Tasks : Upload(h, u, t)) \/ (\E f \in Files : RemoveFile(h, u, f))

AttachmentsContinue(h) == UploadPut(h) \/ UploadRow(h) \/ RemoveObject(h) \/ RemoveRow(h)

-----------------------------------------------------------------------------
(* An attachment that is shown can be downloaded: whatever fails, dies or is deleted
   between the two writes leaves an object without a row, never a row without its
   object, unless somebody has asked for its removal. *)
RowsHaveObjects == \A f \in Files : attachment[f] # Null => f \in object \cup removing
=============================================================================
