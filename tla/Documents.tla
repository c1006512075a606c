----------------------------- MODULE Documents -----------------------------
(***************************************************************************)
(* Documents and certificates: rows in the database that name files in an  *)
(* object store, which no transaction covers.                              *)
(*                                                                         *)
(* A file is stored before its row is inserted, and deleted before its row *)
(* is: a handler that is cut short leaves a file without a row, or a row   *)
(* without a file.                                                         *)
(***************************************************************************)
EXTENDS School

CONSTANTS DocumentIds, CertificateIds  \* ids of rows, drawn before the file is stored

ASSUME DocumentsAssumption == DocumentIds \cap CertificateIds = {}

VARIABLES
  document,     \* Document rows, each with its one version
  certificate,  \* Certificate rows: their student
  stored,       \* files in the object store, by row
  broken        \* history: documents whose removal was cut short

documentTables == <<document, certificate, stored, broken>>

UploadDto == [owner : Students \cup {None}, safe : BOOLEAN]
UpdateOwnerDto == Students
GenerateCertificateDto == [student : Students, fieldsValid : BOOLEAN]

Document == [status : RowStatus, owner : Students \cup {None}]

DocumentsInit ==
  /\ document = [d \in DocumentIds |-> [status |-> "none", owner |-> None]]
  /\ certificate = [c \in CertificateIds |-> None]
  /\ stored = [f \in DocumentIds \cup CertificateIds |-> "none"]
  /\ broken = {}

-----------------------------------------------------------------------------
(* DocumentsService                                                         *)

\* Mutant: the file is stored after the row.
UploadStoreLater(r, d) ==
  /\ stored[d] = "none"
  /\ \E dto \in UploadDto :
       /\ dto.safe
       /\ document' = [document EXCEPT ![d] = [status |-> "kept", owner |-> dto.owner]]
       /\ Starts(r, [op |-> "UploadInsert", row |-> d, owner |-> dto.owner])
  /\ UNCHANGED <<certificate, stored, broken, schoolTables>>

UploadStore(r, d) ==
  /\ stored[d] = "none"
  /\ \E dto \in UploadDto :
       /\ dto.safe
       /\ stored' = [stored EXCEPT ![d] = "kept"]
       /\ Starts(r, [op |-> "UploadInsert", row |-> d, owner |-> dto.owner])
  /\ UNCHANGED <<document, certificate, broken, schoolTables>>

UploadInsert(r) ==
  /\ At(r, "UploadInsert")
  /\ document' = [document EXCEPT ![req[r].row] = [status |-> "kept", owner |-> req[r].owner]]
  /\ Ends(r) /\ UNCHANGED <<certificate, stored, broken, schoolTables>>

\* Nothing is asked about the owner.
UpdateOwner(d) ==
  /\ AtOnce /\ document[d].status = "kept"
  /\ \E dto \in UpdateOwnerDto : document' = [document EXCEPT ![d].owner = dto]
  /\ UNCHANGED <<certificate, stored, broken, schoolTables>>

RemoveRead(r, d) ==
  /\ document[d].status = "kept"
  /\ Starts(r, [op |-> "RemoveFile", row |-> d])
  /\ UNCHANGED <<documentTables, schoolTables>>

RemoveFile(r) ==
  /\ At(r, "RemoveFile")
  /\ stored' = [stored EXCEPT ![req[r].row] = "deleted"]
  /\ Goes(r, [op |-> "RemoveRow", row |-> req[r].row])
  /\ UNCHANGED <<document, certificate, broken, schoolTables>>

RemoveRow(r) ==
  /\ At(r, "RemoveRow") /\ document[req[r].row].status = "kept"
  /\ document' = [document EXCEPT ![req[r].row].status = "deleted"]
  /\ Ends(r) /\ UNCHANGED <<certificate, stored, broken, schoolTables>>

DocumentsController ==
  \E r \in Requests : \/ UploadInsert(r) \/ RemoveFile(r) \/ RemoveRow(r)
                      \/ \E d \in DocumentIds : UploadStore(r, d) \/ UpdateOwner(d) \/ RemoveRead(r, d)

-----------------------------------------------------------------------------
(* CertificatesService                                                      *)

GenerateStore(r, c) ==
  /\ stored[c] = "none"
  /\ \E dto \in GenerateCertificateDto :
       /\ dto.fieldsValid /\ Placed(dto.student)
       /\ stored' = [stored EXCEPT ![c] = "kept"]
       /\ Starts(r, [op |-> "GenerateCertificate", row |-> c, student |-> dto.student])
  /\ UNCHANGED <<document, certificate, broken, schoolTables>>

\* The foreign key refuses a student who was removed meanwhile.
GenerateCertificate(r) ==
  /\ At(r, "GenerateCertificate") /\ Placed(req[r].student)
  /\ certificate' = [certificate EXCEPT ![req[r].row] = req[r].student]
  /\ Ends(r) /\ UNCHANGED <<document, stored, broken, schoolTables>>

\* What anyone who scans the code of a certificate is told.
Verified(c) == certificate[c] # None

CertificatesController ==
  \E r \in Requests : \/ GenerateCertificate(r)
                      \/ \E c \in CertificateIds : GenerateStore(r, c)

\* The foreign key of a certificate refuses the delete of its student; documents
\* name their owner by a plain id.
Certified(s) == \E c \in CertificateIds : certificate[c] = s

DocumentsDies(r) ==
  /\ Dies(r)
  /\ broken' = broken \cup (IF At(r, "RemoveRow") THEN {req[r].row} ELSE {})
  /\ UNCHANGED <<document, certificate, stored, schoolTables>>

-----------------------------------------------------------------------------
(* Properties                                                               *)

DocumentsTypeOK ==
  /\ document \in [DocumentIds -> Document]
  /\ certificate \in [CertificateIds -> Students \cup {None}]
  /\ stored \in [DocumentIds \cup CertificateIds -> RowStatus]
  /\ broken \subseteq DocumentIds

Removing(d) == \E r \in Requests : At(r, "RemoveRow") /\ req[r].row = d

\* Whatever interleaves and is cut short, a link that is shown can be followed: a
\* certificate that can be verified names a student who is kept and a file that is
\* stored, and a document has its file unless its own removal is between the two
\* deletes, or was cut short there.
LinksCanBeFollowed ==
  /\ \A c \in CertificateIds : Verified(c) => stored[c] = "kept" /\ Placed(certificate[c])
  /\ \A d \in DocumentIds : document[d].status = "kept" =>
       stored[d] = "kept" \/ Removing(d) \/ d \in broken
=============================================================================
