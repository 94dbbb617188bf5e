------------------------------- MODULE Files --------------------------------
(***************************************************************************)
(* Files in messages: an object in the store (services/messages/storage)   *)
(* and a row of file_records, which nothing keeps together but the order   *)
(* in which they are written.  The client gets a signed URL, puts the      *)
(* object, and has it recorded (messages/application/file_service.go); an  *)
(* administrator deletes a file, or compares the records with the objects  *)
(* and deletes the objects without a record                                *)
(* (admin/application/file_service.go).                                    *)
(***************************************************************************)
EXTENDS Requests

CONSTANTS Keys,          \* object keys; those a server signs in one millisecond
                         \* for one user and name are one key
          RecordLimit,   \* records a scan reads, 5000
          ObjectLimit,   \* objects a scan lists, 1000
          MaxRecords     \* bound: ids of file_records

ASSUME FilesAssumption ==
    /\ {RecordLimit, ObjectLimit, MaxRecords} \subseteq Nat \ {0}
    /\ Keys \subseteq Nat    \* in the order the store lists them
    /\ IsFiniteSet(Keys)

VARIABLES signed,    \* keys whose signed URL is valid
          objects,   \* what the store holds: how old an object is
          record,    \* table file_records: the id of a key's row, 0 without one
          lastId,
          put,       \* observation: keys whose object was put
          missing,   \* files that were put of which the last scan found only
                     \* the record
          unsafe,    \* observation: keys a scan or a deletion met without a record
          touched    \* observation: keys put, recorded or half deleted since a
                     \* deletion began

fileVars == <<signed, objects, record, lastId, put, missing, unsafe, touched>>

FileOps == {"complete", "download", "admin_download", "delete_file", "scan", "cleanup"}

FilesTypeOK ==
    /\ signed \subseteq Keys
    /\ objects \in [Keys -> {"none", "fresh", "old"}]
    /\ record \in [Keys -> 0..MaxRecords]
    /\ \A j, k \in Keys : record[j] = record[k] => j = k \/ record[j] = 0
    /\ lastId \in 0..MaxRecords
    /\ missing \subseteq Keys

(* Some files are there, put and recorded in the order of their keys.      *)
FilesInit ==
    /\ signed = {}
    /\ put \in IF load.ops \cap FileOps = {} THEN {{}} ELSE SUBSET Keys
    /\ objects = [k \in Keys |-> IF k \in put THEN "old" ELSE "none"]
    /\ record = [k \in Keys |-> IF k \in put THEN Cardinality({j \in put : j <= k}) ELSE 0]
    /\ lastId = Cardinality(put)
    /\ missing = {}
    /\ unsafe = {}
    /\ touched = {}

(* What the store answers of an object: it is there.                       *)
Stat(k) == objects[k] # "none"

(* The store without an object; one that is not there is no error.         *)
Without(k) == [objects EXCEPT ![k] = "none"]

BeingDeleted(k) == \E w \in Workers : req[w] # Idle /\ req[w].op = "delete_file" /\ req[w].key = k

Touch(k) == touched' = touched \cup {k}

-----------------------------------------------------------------------------
(* The client *)

PreSignUpload(k) ==
    /\ Asked("upload")
    /\ signed' = signed \cup {k}
    /\ Quietly
    /\ UNCHANGED <<req, objects, record, lastId, put, missing, unsafe, touched>>

(* External: the client puts the object while its URL is valid.            *)
Upload(k) ==
    /\ k \in signed
    /\ objects' = [objects EXCEPT ![k] = "fresh"]
    /\ put' = put \cup {k}
    /\ Touch(k)
    /\ Quietly
    /\ UNCHANGED <<req, signed, record, lastId, missing, unsafe>>

(* External: 24 hours go by; the URL has long expired.                     *)
GrowOld(k) ==
    /\ objects[k] = "fresh"
    /\ objects' = [objects EXCEPT ![k] = "old"]
    /\ signed' = signed \ {k}
    /\ Quietly
    /\ UNCHANGED <<req, record, lastId, put, missing, unsafe, touched>>

-----------------------------------------------------------------------------
(* Requests *)

FileRequest(op, k, at) ==
    [op |-> op, key |-> k, id |-> 0, known |-> {}, orphans |-> {}, cleaned |-> 0, at |-> at]

(* The client names the key of an URL it was given.                        *)
CompleteUpload(k) == FileRequest("complete", k, "member")

(* A member of its room, or its uploader, asks for a file by its id or, as *)
(* in old messages, by its key.                                            *)
DownloadFile(k) == FileRequest("download", k, "find")

AdminFileDownload(k) == FileRequest("admin_download", k, "find")

AdminFileDelete(k) == FileRequest("delete_file", k, "find")

(* Neither of them is about a key.                                         *)
AnyKey == CHOOSE k \in Keys : TRUE

AdminFileScan == FileRequest("scan", AnyKey, "records")

AdminFileCleanup == FileRequest("cleanup", AnyKey, "records")

FileRequests ==
    {CompleteUpload(k) : k \in signed} \cup {DownloadFile(k) : k \in Keys}
    \cup {AdminFileDownload(k) : k \in Keys} \cup {AdminFileDelete(k) : k \in Keys}
    \cup {AdminFileScan, AdminFileCleanup}

BeginFile(w, q) ==
    /\ Arrives(w, q)
    /\ UNCHANGED fileVars

-----------------------------------------------------------------------------
(* FileService of the messages *)

(* The key must be the user's, and he a member of the room he names.       *)
MayComplete(w, ok) ==
    /\ Doing(w, {"complete"}, "member")
    /\ IF ok THEN Go(w, "find") ELSE Return(w)
    /\ Quietly
    /\ UNCHANGED fileVars

(* Whether there is a record decides between Save and Create.              *)
FindRecord(w) ==
    /\ Doing(w, {"complete"}, "find")
    /\ LET id == record[req[w].key]
       IN  req' = [req EXCEPT ![w].id = id, ![w].at = IF id = 0 THEN "create" ELSE "save"]
    /\ Quietly
    /\ UNCHANGED fileVars

(* The unique index on the key refuses a second record of it.              *)
CreateRecord(w) ==
    /\ Doing(w, {"complete"}, "create")
    /\ lastId < MaxRecords
    /\ IF record[req[w].key] = 0
       THEN record' = [record EXCEPT ![req[w].key] = lastId + 1] /\ lastId' = lastId + 1
       ELSE UNCHANGED <<record, lastId>>
    /\ Touch(req[w].key)
    /\ Return(w)
    /\ Quietly
    /\ UNCHANGED <<signed, objects, put, missing, unsafe>>

(* Where the row has been deleted since it was read, Save inserts it again *)
(* with its id.                                                            *)
SaveRecord(w) ==
    /\ Doing(w, {"complete"}, "save")
    /\ IF record[req[w].key] = 0
       THEN record' = [record EXCEPT ![req[w].key] = req[w].id]
       ELSE UNCHANGED record
    /\ Touch(req[w].key)
    /\ Return(w)
    /\ Quietly
    /\ UNCHANGED <<signed, objects, lastId, put, missing, unsafe>>

FindDownload(w) ==
    /\ Doing(w, {"download", "admin_download"}, "find")
    /\ IF record[req[w].key] = 0 THEN Return(w) ELSE Go(w, "url")
    /\ Quietly
    /\ UNCHANGED fileVars

(* The uploader, a member or an administrator gets a signed URL; the store *)
(* is not asked whether the object is there.                               *)
GetDownloadURL(w) ==
    /\ Doing(w, {"download", "admin_download"}, "url")
    /\ Return(w)
    /\ Quietly
    /\ UNCHANGED fileVars

-----------------------------------------------------------------------------
(* FileService of the administrators *)

(* DeleteFile reads the record ...                                         *)
GetFile(w) ==
    /\ Doing(w, {"delete_file"}, "find")
    /\ LET k == req[w].key
       IN  IF record[k] = 0 THEN Return(w) /\ UNCHANGED touched
           ELSE /\ req' = [req EXCEPT ![w].id = record[k], ![w].at = "unrecord"]
                /\ touched' = touched \ {k}
    /\ Quietly
    /\ UNCHANGED <<signed, objects, record, lastId, put, missing, unsafe>>

(* ... and deletes first the record, then the object.                      *)
DeleteRecord(w) ==
    /\ Doing(w, {"delete_file"}, "unrecord")
    /\ LET k == req[w].key
       IN  /\ record' = [record EXCEPT ![k] = IF @ = req[w].id THEN 0 ELSE @]
           /\ unsafe' = unsafe \cup {k}
    /\ Go(w, "delete")
    /\ Quietly
    /\ UNCHANGED <<signed, objects, lastId, put, missing, touched>>

DeleteObject(w) ==
    /\ Doing(w, {"delete_file"}, "delete")
    /\ objects' = Without(req[w].key)
    /\ Go(w, "log")
    /\ Quietly
    /\ UNCHANGED <<signed, record, lastId, put, missing, unsafe, touched>>

(* Mutant: the error of the store is passed over.                          *)
DeleteObjectGoesOn(w) ==
    /\ Doing(w, {"delete_file"}, "delete")
    /\ Fault
    /\ Go(w, "log")
    /\ UNCHANGED fileVars

(* The record is to be put back, but as a list item, with columns that     *)
(* file_records does not have: Create fails, and its error is passed over. *)
DeleteObjectFails(w) ==
    /\ Doing(w, {"delete_file"}, "delete")
    /\ Fault
    /\ Touch(req[w].key)
    /\ Return(w)
    /\ UNCHANGED <<signed, objects, record, lastId, put, missing, unsafe>>

Newest(ks, n) == {k \in ks : Cardinality({j \in ks : record[j] > record[k]}) < n}

(* The first of the objects in the order of their keys.                    *)
ListObjects(limit) ==
    LET all == {k \in Keys : Stat(k)} IN {k \in all : Cardinality({j \in all : j < k}) < limit}

Recorded == {k \in Keys : record[k] > 0}

(* Mutant: only records of a message that was sent count, and no record    *)
(* has its message noted.                                                  *)
KnownOfMessages == {}

KnownKeys == Newest(Recorded, RecordLimit)

(* ScanAnomalies reads the records ...                                     *)
ScanRecords(w) ==
    /\ Doing(w, {"scan", "cleanup"}, "records")
    /\ req' = [req EXCEPT ![w].known = KnownKeys, ![w].at = "stats"]
    /\ unsafe' = IF req[w].op = "cleanup" THEN unsafe \cup (Keys \ Recorded) ELSE unsafe
    /\ Quietly
    /\ UNCHANGED <<signed, objects, record, lastId, put, missing, touched>>

(* ... asks the store for the object of each, in one step here ...         *)
ScanStats(w) ==
    /\ Doing(w, {"scan", "cleanup"}, "stats")
    /\ missing' = {k \in req[w].known \cap put : ~Stat(k)}
    /\ Go(w, "objects")
    /\ Quietly
    /\ UNCHANGED <<signed, objects, record, lastId, put, unsafe, touched>>

(* ... taking a call that fails for an object that is missing ...          *)
ScanStatFails(w) ==
    /\ Doing(w, {"scan", "cleanup"}, "stats")
    /\ \E k \in req[w].known \cap put :
          missing' = {j \in req[w].known \cap put : ~Stat(j)} \cup {k}
    /\ Fault
    /\ Go(w, "objects")
    /\ UNCHANGED <<signed, objects, record, lastId, put, unsafe, touched>>

(* ... and later lists the objects.                                        *)
ScanObjects(w) ==
    /\ Doing(w, {"scan", "cleanup"}, "objects")
    /\ IF req[w].op = "scan" THEN Return(w)
       ELSE req' = [req EXCEPT ![w].at = "clean",
                               ![w].orphans = ListObjects(ObjectLimit) \ req[w].known]
    /\ Quietly
    /\ UNCHANGED fileVars

(* CleanupOrphans, one object after the other.                             *)
NextOrphan(w) == CHOOSE k \in req[w].orphans : \A j \in req[w].orphans : k <= j

CleanOrphan(w) ==
    /\ Doing(w, {"cleanup"}, "clean")
    /\ req[w].orphans # {}
    /\ objects' = Without(NextOrphan(w))
    /\ req' = [req EXCEPT ![w].orphans = @ \ {NextOrphan(w)}, ![w].cleaned = @ + 1]
    /\ Quietly
    /\ UNCHANGED <<signed, record, lastId, put, missing, unsafe, touched>>

CleanFails(w) ==
    /\ Doing(w, {"cleanup"}, "clean")
    /\ req[w].orphans # {}
    /\ Fault
    /\ req' = [req EXCEPT ![w].orphans = @ \ {NextOrphan(w)}]
    /\ UNCHANGED fileVars

CleanupEnds(w) ==
    /\ Doing(w, {"cleanup"}, "clean")
    /\ req[w].orphans = {}
    /\ IF req[w].cleaned > 0 THEN Log([op |-> "cleanup", target |-> req[w].cleaned]) ELSE Quietly
    /\ Return(w)
    /\ UNCHANGED fileVars

LogDelete(w) ==
    /\ Doing(w, {"delete_file"}, "log")
    /\ Log([op |-> "delete_file", target |-> req[w].key])
    /\ Return(w)
    /\ UNCHANGED fileVars

(* A database or the store's listing fails, or the service ends.           *)
FileFails(w) ==
    /\ req[w] # Idle /\ req[w].op \in FileOps
    /\ req[w].at # "delete"
    /\ Fault
    /\ touched' = IF req[w].op = "delete_file" THEN touched \cup {req[w].key} ELSE touched
    /\ Return(w)
    /\ UNCHANGED <<signed, objects, record, lastId, put, missing, unsafe>>

-----------------------------------------------------------------------------
(* What an administrator is shown *)

FileItem(k) == [id |-> record[k], exists |-> Stat(k)]

(* ORDER BY id DESC.                                                       *)
ListFiles(page, size) ==
    LET ks == OnPage(Recorded, page, size,
                     [k \in Recorded |-> Cardinality({j \in Recorded : record[j] > record[k]})])
    IN  [k \in ks |-> FileItem(k)]

AdminFileList(page, size) == ListFiles(page, size)

-----------------------------------------------------------------------------
(* Next-state relation *)

FileStep(w) ==
    \/ FindRecord(w) \/ CreateRecord(w) \/ SaveRecord(w)
    \/ FindDownload(w) \/ GetDownloadURL(w) \/ GetFile(w)
    \/ DeleteRecord(w) \/ DeleteObject(w) \/ DeleteObjectFails(w) \/ LogDelete(w)
    \/ ScanRecords(w) \/ ScanStats(w) \/ ScanStatFails(w) \/ ScanObjects(w)
    \/ CleanOrphan(w) \/ CleanFails(w) \/ CleanupEnds(w)
    \/ \E ok \in BOOLEAN : MayComplete(w, ok)

FilesNext ==
    \/ \E w \in Workers :
          \/ FileStep(w) \/ FileFails(w)
          \/ Free(w) /\ \E q \in FileRequests : BeginFile(w, q)
    \/ \E k \in Keys : PreSignUpload(k) \/ Upload(k) \/ GrowOld(k)

-----------------------------------------------------------------------------
(* Properties *)

(* A file that was put and is recorded has its object, as long as no       *)
(* administrator deleted it and every cleanup found its record when it     *)
(* read the records: what is put, recorded, scanned and deleted in between *)
(* takes no other object away.  A scan reports no such file as missing,    *)
(* unless a call to the store failed, and the pages of the list show every *)
(* such file, as one that is there.                                        *)
RecordedIsStored ==
    LET pages == {AdminFileList(n, 1) : n \in 1..Cardinality(Keys)}
    IN  /\ faults = 0 => missing \subseteq unsafe
        /\ UNION {DOMAIN p : p \in pages} = Recorded
        /\ \A p \in pages : \A k \in DOMAIN p \cap put : k \notin unsafe => p[k].exists

(* A file whose deletion was logged has neither a record nor an object,    *)
(* unless it was put or recorded again while it was being deleted or       *)
(* since, or is being deleted once more.                                   *)
DeletedIsGone ==
    \A i \in DOMAIN audit :
        LET k == audit[i].target
        IN  audit[i].op = "delete_file" /\ k \notin touched /\ ~BeingDeleted(k)
                => ~Stat(k) /\ k \notin Recorded

(* The comment on CleanupOrphans: it deletes objects without a record that *)
(* are older than 24 hours, not one just uploaded.                         *)
CleanupSparesFiles ==
    [][\A w \in Workers, k \in Keys :
          CleanOrphan(w) /\ Stat(k) /\ objects'[k] = "none"
              => objects[k] = "old" /\ k \notin Recorded]_<<req, fileVars>>

=============================================================================
