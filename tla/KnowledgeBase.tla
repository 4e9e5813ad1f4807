---------------------------- MODULE KnowledgeBase ----------------------------
(***************************************************************************)
(* The Knowledge Base of one project: the folder tree, documents with their *)
(* versions, comment threads and stored files (LegacyService, "Knowledge    *)
(* Base v2", and StorageService).  A handler that reads, then writes, is    *)
(* two steps, with the other requests in between; a transaction is one.     *)
(* Every caller is a member of the project; the ones in Manager are its     *)
(* owners and managers.  Text is a version number, and a title is either    *)
(* the one Zyra finds its memory by, or another.                            *)
(***************************************************************************)
EXTENDS Naturals, FiniteSets

CONSTANTS
  Folder,    \* folder ids; 1 is the root the project was created with
  Doc,       \* document ids
  KbFile,    \* file ids, each with a storage key of its own
  Comment,   \* comment ids
  Mirror,    \* documents an integration sync has put in the root
  Member,    \* users
  Manager,   \* the owners and managers among them
  Tray,      \* requests in flight at once
  MaxActs    \* requests ever made

ASSUME KnowledgeConstants ==
  /\ Folder \subseteq Nat \ {0} /\ 1 \in Folder /\ Doc \subseteq Nat \ {0}
  /\ KbFile \subseteq Nat \ {0} /\ Comment \subseteq Nat \ {0} /\ Tray \subseteq Nat
  /\ Mirror \subseteq Doc /\ Manager \subseteq Member /\ MaxActs \in Nat

VARIABLES
  folder,    \* knowledge_folders
  doc,       \* knowledge_documents, with the versions kept of each
  kbFile,    \* knowledge_files
  comment,   \* knowledge_document_comments
  blob,      \* the files whose bytes the storage holds
  tray,      \* the requests between their reads and their writes
  acts,      \* requests made so far
  stray,     \* rows written on the strength of a read that no longer held, or restored
  crossed    \* whether a folder was moved while another move was under way

kbVars == <<folder, doc, kbFile, comment, blob, tray, acts, stray, crossed>>

NoFolder  == [state |-> "none", parent |-> 0, owner |-> 0]
NoDoc     == [state |-> "none", folder |-> 0, owner |-> 0, memory |-> FALSE, text |-> 0, kind |-> "general",
              status |-> "draft", readOnly |-> FALSE, versions |-> {}]
NoKbFile  == [state |-> "none", folder |-> 0, owner |-> 0]
NoComment == [state |-> "none", doc |-> 0, parent |-> 0, author |-> 0, resolved |-> FALSE]
Empty     == [op |-> "idle", who |-> 0, id |-> 0, to |-> 0, read |-> NoDoc, list |-> {}]

KnowledgeInit ==
  /\ folder = [f \in Folder |-> IF f = 1 THEN [state |-> "live", parent |-> 0, owner |-> 0] ELSE NoFolder]
  /\ doc = [d \in Doc |-> IF d \in Mirror THEN [NoDoc EXCEPT !.state = "live", !.folder = 1, !.readOnly = TRUE]
                          ELSE NoDoc]
  /\ kbFile = [x \in KbFile |-> NoKbFile]
  /\ comment = [c \in Comment |-> NoComment]
  /\ blob = {} /\ stray = {} /\ crossed = FALSE /\ acts = 0
  /\ tray = [t \in Tray |-> Empty]

-----------------------------------------------------------------------------
(* Lookups and permissions *)

Fresh(S, row) == {n \in S : row[n].state = "none" /\ \A k \in S : row[k].state = "none" => n <= k}

\* Rows a request can name: the deleted ones are invisible to every resolver.
kbFolder   == {f \in Folder : folder[f].state = "live"}
kbDocument == {d \in Doc : doc[d].state = "live"}
kbFileRow  == {x \in KbFile : kbFile[x].state = "live"}
Comments   == {c \in Comment : comment[c].state = "live"}

kbRequireMutateAccess(u, owner) == u \in Manager \/ owner = u
kbRequireOwnerOrManager(u)      == u \in Manager

\* The recursive CTEs: the least part of S that has the folder f and, with a folder, the ones in
\* it; for a folder and everything below it, deleted or not; and for the live part.
Closed(S, row, F) == \A h \in S : row[h].parent \in F => h \in F
Beneath(S, row, f) ==
  {g \in S : \A F \in SUBSET S : (f \in S => f \in F) /\ Closed(S, row, F) => g \in F}
Subtree(f)     == Beneath(Folder, folder, f)
LiveSubtree(f) == Beneath(kbFolder, folder, f)
\* The chain of parents of a folder.
kbBreadcrumb(f) == {g \in Folder : f \in Subtree(g)}

Act == acts < MaxActs /\ acts' = acts + 1
Takes(t, r) ==
  /\ Act /\ tray[t].op = "idle" /\ \A a \in Tray : a < t => tray[a].op /= "idle"
  /\ tray' = [tray EXCEPT ![t] = r]
Puts(t, op) == tray[t].op = op /\ tray' = [tray EXCEPT ![t] = Empty] /\ UNCHANGED acts
Request(op, u, id, to) == [Empty EXCEPT !.op = op, !.who = u, !.id = id, !.to = to]
\* Rows whose destination folder is gone by the time they are written; files on a list of
\* those to purge.
Strayed(row, f) == stray' = IF f \in kbFolder THEN stray ELSE stray \cup {row}
Listed == UNION {tray[a].list : a \in Tray}

-----------------------------------------------------------------------------
(* Folders *)

\* The parent is looked up first and the row inserted after; a missing parent is the root.
createKnowledgeFolder(t) ==
  /\ \E u \in Member, f \in kbFolder : Takes(t, Request("newFolder", u, 0, f))
  /\ UNCHANGED <<folder, doc, kbFile, comment, blob, stray, crossed>>
InsertFolder(t) ==
  LET r == tray[t] IN
  /\ Puts(t, "newFolder")
  /\ \E f \in Fresh(Folder, folder) :
       /\ folder' = [folder EXCEPT ![f] = [state |-> "live", parent |-> r.to, owner |-> r.who]]
       /\ Strayed(<<"folder", f>>, r.to)
  /\ UNCHANGED <<doc, kbFile, comment, blob, crossed>>

\* Fault: the target may lie below the moved folder.
moveKnowledgeFolderAnywhere(t) ==
  /\ \E f \in kbFolder \ {1}, g \in kbFolder, u \in Member :
       /\ kbRequireMutateAccess(u, folder[f].owner) /\ g /= folder[f].parent
       /\ Takes(t, Request("moveFolder", u, f, g))
  /\ UNCHANGED <<folder, doc, kbFile, comment, blob, stray, crossed>>

\* The target must not be the folder or one below it, as the tree stands when it is read.
moveKnowledgeFolder(t) ==
  /\ \E f \in kbFolder \ {1}, u \in Member : \E g \in kbFolder \ Subtree(f) :
       /\ kbRequireMutateAccess(u, folder[f].owner) /\ g /= folder[f].parent
       /\ Takes(t, Request("moveFolder", u, f, g))
  /\ UNCHANGED <<folder, doc, kbFile, comment, blob, stray, crossed>>
WriteFolderMove(t) ==
  LET r == tray[t] IN
  /\ Puts(t, "moveFolder")
  /\ folder' = [folder EXCEPT ![r.id].parent = r.to]
  /\ stray' = stray \cup (IF r.to \in kbFolder THEN {} ELSE {<<"folder", r.id>>})
                    \cup {<<"file", x>> : x \in {y \in Listed : kbFile[y].folder \in Subtree(r.id)}}
  /\ crossed' = (crossed \/ \E a \in Tray \ {t} : tray[a].op = "moveFolder")
  /\ UNCHANGED <<doc, kbFile, comment, blob>>

\* The storage keys to purge are listed before the transaction.
deleteKnowledgeFolder(t) ==
  /\ \E f \in kbFolder \ {1}, u \in Member :
       /\ kbRequireMutateAccess(u, folder[f].owner)
       /\ Takes(t, [Request("dropFolder", u, f, 0) EXCEPT !.list = {x \in kbFileRow : kbFile[x].folder \in Subtree(f)}])
  /\ UNCHANGED <<folder, doc, kbFile, comment, blob, stray, crossed>>

\* The transaction: folders, documents and files below it are marked deleted, and the memory
\* document, which is spared, is moved to the root.
DropFolder(t) ==
  LET r == tray[t]
      F == Subtree(r.id)
  IN
  /\ r.op = "dropFolder" /\ tray' = [tray EXCEPT ![t].op = "purge"]
  /\ folder' = [f \in Folder |-> IF f \in F THEN [folder[f] EXCEPT !.state = "deleted"] ELSE folder[f]]
  /\ doc' = [d \in Doc |-> CASE doc[d].folder \in F /\ doc[d].memory -> [doc[d] EXCEPT !.folder = 1]
                             [] doc[d].folder \in F /\ ~doc[d].memory /\ doc[d].state = "live"
                                  -> [doc[d] EXCEPT !.state = "deleted"]
                             [] OTHER -> doc[d]]
  /\ kbFile' = [x \in KbFile |-> IF kbFile[x].folder \in F /\ kbFile[x].state = "live"
                                 THEN [kbFile[x] EXCEPT !.state = "deleted"] ELSE kbFile[x]]
  /\ UNCHANGED <<comment, blob, acts, stray, crossed>>

\* Then the bytes go, object by object, whatever became of the rows; a failure is logged.
PurgeFiles(t) ==
  /\ tray[t].op = "purge" /\ tray' = [tray EXCEPT ![t] = Empty]
  /\ \E lost \in SUBSET tray[t].list : blob' = blob \ lost
  /\ UNCHANGED <<folder, doc, kbFile, comment, acts, stray, crossed>>

\* Restores the one row, whatever its parent's state.
restoreKnowledgeFolder ==
  /\ Act
  /\ \E f \in Folder, u \in Member :
       /\ kbRequireOwnerOrManager(u) /\ folder[f].state = "deleted"
       /\ folder' = [folder EXCEPT ![f].state = "live"] /\ stray' = stray \cup {<<"folder", f>>}
  /\ UNCHANGED <<doc, kbFile, comment, blob, tray, crossed>>

-----------------------------------------------------------------------------
(* Documents *)

createKnowledgeDocument(t) ==
  /\ \E u \in Member, f \in kbFolder, m \in BOOLEAN, k \in {"general", "ai_memory"} :
       Takes(t, [Request("newDoc", u, 0, f) EXCEPT !.read = [NoDoc EXCEPT !.memory = m, !.kind = k]])
  /\ UNCHANGED <<folder, doc, kbFile, comment, blob, stray, crossed>>
InsertDocument(t) ==
  LET r == tray[t] IN
  /\ Puts(t, "newDoc")
  /\ \E d \in Fresh(Doc, doc) :
       /\ doc' = [doc EXCEPT ![d] = [r.read EXCEPT !.state = "live", !.folder = r.to, !.owner = r.who]]
       /\ Strayed(<<"doc", d>>, r.to)
  /\ UNCHANGED <<folder, kbFile, comment, blob, crossed>>

\* A copy in the same folder, under another title.
duplicateKnowledgeDocument ==
  /\ Act
  /\ \E d \in kbDocument, n \in Fresh(Doc, doc), u \in Member :
       /\ doc' = [doc EXCEPT ![n] = [NoDoc EXCEPT !.state = "live", !.folder = doc[d].folder, !.owner = u,
                                                  !.text = doc[d].text, !.kind = doc[d].kind]]
       /\ Strayed(<<"doc", n>>, doc[d].folder)
  /\ UNCHANGED <<folder, kbFile, comment, blob, tray, crossed>>

\* An edit: of the text, of the title, of the status, or to nothing (stored as sent).
isZyraMemoryDocument(d) == doc[d].memory
updateKnowledgeDocument(t) ==
  /\ \E d \in kbDocument, u \in Member, retitle \in BOOLEAN :
       /\ kbRequireMutateAccess(u, doc[d].owner) /\ ~doc[d].readOnly
       /\ ~(isZyraMemoryDocument(d) /\ retitle)
       /\ Takes(t, [Request("save", u, d, IF retitle THEN 1 ELSE 0) EXCEPT !.read = doc[d]])
  /\ UNCHANGED <<folder, doc, kbFile, comment, blob, stray, crossed>>

\* The old content is kept as a version unless the newest one is recent; an approved AI
\* memory goes back to draft, and a document of another type takes the status sent.
SaveDocument(t) ==
  LET r == tray[t] IN
  /\ Puts(t, "save")
  /\ \E snapshot \in BOOLEAN, status \in {"draft", "published"} :
       doc' = [doc EXCEPT ![r.id].memory = r.read.memory \/ r.to = 1,
                          ![r.id].text = IF r.to = 1 THEN r.read.text ELSE r.read.text + 1,
                          ![r.id].status = CASE r.read.kind /= "ai_memory" -> status
                                             [] r.read.status = "approved" -> "draft"
                                             [] OTHER -> r.read.status,
                          ![r.id].versions = IF snapshot THEN @ \cup {<<r.read.memory, r.read.text>>} ELSE @]
  /\ stray' = IF doc[r.id].state = "live" THEN stray ELSE stray \cup {<<"doc", r.id>>}
  /\ UNCHANGED <<folder, kbFile, comment, blob, crossed>>

moveKnowledgeDocument(t) ==
  /\ \E d \in kbDocument, f \in kbFolder, u \in Member :
       /\ kbRequireMutateAccess(u, doc[d].owner) /\ f /= doc[d].folder
       /\ Takes(t, Request("moveDoc", u, d, f))
  /\ UNCHANGED <<folder, doc, kbFile, comment, blob, stray, crossed>>
WriteDocumentMove(t) ==
  /\ Puts(t, "moveDoc")
  /\ doc' = [doc EXCEPT ![tray[t].id].folder = tray[t].to]
  /\ Strayed(<<"doc", tray[t].id>>, tray[t].to)
  /\ UNCHANGED <<folder, kbFile, comment, blob, crossed>>

\* The memory document is refused by the title that was read.
deleteKnowledgeDocument(t) ==
  /\ \E d \in kbDocument, u \in Member :
       /\ kbRequireMutateAccess(u, doc[d].owner) /\ ~isZyraMemoryDocument(d)
       /\ Takes(t, Request("dropDoc", u, d, 0))
  /\ UNCHANGED <<folder, doc, kbFile, comment, blob, stray, crossed>>
DropDocument(t) ==
  LET d == tray[t].id IN
  /\ Puts(t, "dropDoc")
  /\ doc' = [doc EXCEPT ![d].state = "deleted"]
  /\ stray' = IF doc[d].memory THEN stray \cup {<<"doc", d>>} ELSE stray
  /\ UNCHANGED <<folder, kbFile, comment, blob, crossed>>

restoreKnowledgeDocument ==
  /\ Act
  /\ \E d \in Doc, u \in Member :
       /\ kbRequireOwnerOrManager(u) /\ doc[d].state = "deleted"
       /\ doc' = [doc EXCEPT ![d].state = "live"] /\ stray' = stray \cup {<<"doc", d>>}
  /\ UNCHANGED <<folder, kbFile, comment, blob, tray, crossed>>

\* The content is kept as a version, then replaced; status and type stay as they are.
restoreKnowledgeDocumentVersion(t) ==
  /\ \E d \in kbDocument, u \in Member : \E v \in doc[d].versions :
       /\ kbRequireMutateAccess(u, doc[d].owner)
       /\ Takes(t, [Request("revert", u, d, 0) EXCEPT !.read = [doc[d] EXCEPT !.versions = {v}]])
  /\ UNCHANGED <<folder, doc, kbFile, comment, blob, stray, crossed>>
RevertDocument(t) ==
  LET r == tray[t] IN
  /\ Puts(t, "revert")
  /\ \E v \in r.read.versions :
       doc' = [doc EXCEPT ![r.id].memory = v[1], ![r.id].text = v[2],
                          ![r.id].versions = @ \cup {<<r.read.memory, r.read.text>>}]
  /\ stray' = IF doc[r.id].state = "live" THEN stray ELSE stray \cup {<<"doc", r.id>>}
  /\ UNCHANGED <<folder, kbFile, comment, blob, crossed>>

\* approveAiMemory and rejectAiMemory.
reviewAiMemory ==
  /\ Act
  /\ \E d \in kbDocument, u \in Member, s \in {"approved", "rejected"} :
       /\ kbRequireOwnerOrManager(u) /\ doc[d].kind = "ai_memory" /\ doc[d].status /= s
       /\ doc' = [doc EXCEPT ![d].status = s]
  /\ UNCHANGED <<folder, kbFile, comment, blob, tray, stray, crossed>>

\* Zyra appends to the memory it finds by title, or starts one in its folder or the root.
rememberZyraMemory(t) ==
  /\ \E f \in kbFolder : (f = 1 \/ folder[f].parent = 1) /\
       \E d \in {0} \cup {e \in kbDocument : doc[e].memory} :
         /\ d = 0 => ~\E e \in kbDocument : doc[e].memory
         /\ Takes(t, [Request("remember", 0, d, f) EXCEPT !.read = IF d = 0 THEN NoDoc ELSE doc[d]])
  /\ UNCHANGED <<folder, doc, kbFile, comment, blob, stray, crossed>>
WriteMemory(t) ==
  LET r == tray[t] IN
  /\ Puts(t, "remember")
  /\ \/ /\ r.id > 0
        /\ doc' = [doc EXCEPT ![r.id].text = r.read.text + 1] /\ UNCHANGED stray
     \/ /\ r.id = 0
        /\ \E d \in Fresh(Doc, doc) :
             /\ doc' = [doc EXCEPT ![d] = [NoDoc EXCEPT !.state = "live", !.folder = r.to, !.memory = TRUE,
                                                        !.status = "published"]]
             /\ Strayed(<<"doc", d>>, r.to)
  /\ UNCHANGED <<folder, kbFile, comment, blob, crossed>>

-----------------------------------------------------------------------------
(* Comments *)

\* A reply names the top comment of a live thread of the document.
createKnowledgeDocumentComment(t) ==
  /\ \E d \in kbDocument, u \in Member :
       \E p \in {0} \cup {c \in Comments : comment[c].doc = d /\ comment[c].parent = 0} :
         Takes(t, Request("comment", u, d, p))
  /\ UNCHANGED <<folder, doc, kbFile, comment, blob, stray, crossed>>
InsertComment(t) ==
  LET r == tray[t] IN
  /\ Puts(t, "comment")
  /\ \E c \in Fresh(Comment, comment) :
       /\ comment' = [comment EXCEPT ![c] = [state |-> "live", doc |-> r.id, parent |-> r.to, author |-> r.who,
                                             resolved |-> FALSE]]
       /\ stray' = IF r.to \in {0} \cup Comments THEN stray ELSE stray \cup {<<"comment", c>>}
  /\ UNCHANGED <<folder, doc, kbFile, blob, crossed>>

\* Only a thread is resolved, by its author or a manager (rewording it changes no state here).
updateKnowledgeDocumentComment ==
  /\ Act
  /\ \E c \in Comments, u \in Member :
       /\ comment[c].parent = 0 /\ kbRequireMutateAccess(u, comment[c].author)
       /\ comment' = [comment EXCEPT ![c].resolved = ~@]
  /\ UNCHANGED <<folder, doc, kbFile, blob, tray, stray, crossed>>

\* The replies go with the thread.
deleteKnowledgeDocumentComment ==
  /\ Act
  /\ \E c \in Comments, u \in Member :
       /\ kbRequireMutateAccess(u, comment[c].author)
       /\ comment' = [k \in Comment |-> IF k = c \/ (comment[k].parent = c /\ comment[k].state = "live")
                                        THEN [comment[k] EXCEPT !.state = "deleted"] ELSE comment[k]]
  /\ UNCHANGED <<folder, doc, kbFile, blob, tray, stray, crossed>>

-----------------------------------------------------------------------------
(* Files *)

\* Folder and quota are checked, the bytes stored, and then the row written.
uploadKnowledgeFiles(t) ==
  /\ \E u \in Member, f \in kbFolder, x \in Fresh(KbFile, kbFile) :
       /\ x \notin blob /\ blob' = blob \cup {x}
       /\ Takes(t, Request("upload", u, x, f))
  /\ UNCHANGED <<folder, doc, kbFile, comment, stray, crossed>>
InsertFile(t) ==
  LET r == tray[t] IN
  /\ Puts(t, "upload")
  /\ kbFile' = [kbFile EXCEPT ![r.id] = [state |-> "live", folder |-> r.to, owner |-> r.who]]
  /\ Strayed(<<"file", r.id>>, r.to)
  /\ UNCHANGED <<folder, doc, comment, blob, crossed>>

moveKnowledgeFile(t) ==
  /\ \E x \in kbFileRow, f \in kbFolder, u \in Member :
       /\ kbRequireMutateAccess(u, kbFile[x].owner) /\ f /= kbFile[x].folder
       /\ Takes(t, Request("moveFile", u, x, f))
  /\ UNCHANGED <<folder, doc, kbFile, comment, blob, stray, crossed>>
WriteFileMove(t) ==
  /\ Puts(t, "moveFile")
  /\ kbFile' = [kbFile EXCEPT ![tray[t].id].folder = tray[t].to]
  /\ stray' = IF tray[t].to \in kbFolder /\ tray[t].id \notin Listed THEN stray ELSE stray \cup {<<"file", tray[t].id>>}
  /\ UNCHANGED <<folder, doc, comment, blob, crossed>>

\* The row is marked first; the bytes follow, or stay when the storage refuses.
deleteKnowledgeFile(t) ==
  /\ \E x \in kbFileRow, u \in Member :
       /\ kbRequireMutateAccess(u, kbFile[x].owner)
       /\ kbFile' = [kbFile EXCEPT ![x].state = "deleted"]
       /\ Takes(t, [Request("purge", u, x, 0) EXCEPT !.list = {x}])
  /\ UNCHANGED <<folder, doc, comment, blob, stray, crossed>>

restoreKnowledgeFile ==
  /\ Act
  /\ \E x \in KbFile, u \in Member :
       /\ kbRequireOwnerOrManager(u) /\ kbFile[x].state = "deleted"
       /\ kbFile' = [kbFile EXCEPT ![x].state = "live"] /\ stray' = stray \cup {<<"file", x>>}
  /\ UNCHANGED <<folder, doc, comment, blob, tray, crossed>>

-----------------------------------------------------------------------------
(* What the screens read *)

\* Browsing: the items of a folder, and those of the folders below it.
listKnowledgeFolderItems(f) ==
  [docs |-> {d \in kbDocument : doc[d].folder = f}, files |-> {x \in kbFileRow : kbFile[x].folder = f},
   folders |-> {g \in kbFolder : folder[g].parent = f}]
\* The folder row's counts of everything beneath it.
folderCounts(f) ==
  [docs |-> Cardinality({d \in kbDocument : doc[d].folder \in LiveSubtree(f)}),
   files |-> Cardinality({x \in kbFileRow : kbFile[x].folder \in LiveSubtree(f)})]
\* The archive leaves out a file whose bytes cannot be read.
exportKnowledgeFolder(f) ==
  [docs |-> {d \in kbDocument : doc[d].folder \in LiveSubtree(f)},
   files |-> {x \in kbFileRow \cap blob : kbFile[x].folder \in LiveSubtree(f)}]
\* The project-wide tiles, the flat list and the search look at the rows alone.
knowledgeBaseSummary ==
  [folders |-> Cardinality(kbFolder \ {1}), docs |-> Cardinality(kbDocument), files |-> Cardinality(kbFileRow)]
listKnowledgeDocuments(k) == {d \in kbDocument : doc[d].kind = k}
searchKnowledgeBase == [folders |-> kbFolder, docs |-> kbDocument, files |-> kbFileRow]
\* Whether a file's bytes can be served.
getKnowledgeFileAccess(x) == x \in kbFileRow /\ x \in blob
listKnowledgeDocumentComments(d) ==
  {c \in Comments : comment[c].doc = d /\ (comment[c].parent = 0 \/ comment[c].parent \in Comments)}

-----------------------------------------------------------------------------
KnowledgeNext ==
  \/ \E t \in Tray :
       \/ createKnowledgeFolder(t) \/ InsertFolder(t) \/ moveKnowledgeFolder(t) \/ WriteFolderMove(t)
       \/ deleteKnowledgeFolder(t) \/ DropFolder(t) \/ PurgeFiles(t)
       \/ createKnowledgeDocument(t) \/ InsertDocument(t) \/ updateKnowledgeDocument(t) \/ SaveDocument(t)
       \/ moveKnowledgeDocument(t) \/ WriteDocumentMove(t) \/ deleteKnowledgeDocument(t) \/ DropDocument(t)
       \/ restoreKnowledgeDocumentVersion(t) \/ RevertDocument(t) \/ rememberZyraMemory(t) \/ WriteMemory(t)
       \/ createKnowledgeDocumentComment(t) \/ InsertComment(t)
       \/ uploadKnowledgeFiles(t) \/ InsertFile(t) \/ moveKnowledgeFile(t) \/ WriteFileMove(t) \/ deleteKnowledgeFile(t)
  \/ restoreKnowledgeFolder \/ duplicateKnowledgeDocument \/ restoreKnowledgeDocument \/ reviewAiMemory
  \/ updateKnowledgeDocumentComment \/ deleteKnowledgeDocumentComment \/ restoreKnowledgeFile

KnowledgeSpec == KnowledgeInit /\ [][KnowledgeNext]_kbVars

-----------------------------------------------------------------------------
(* Properties *)

\* Every folder hangs from the root, so that the recursive queries end, unless two moves of
\* folders overlapped.
FoldersFormTree == crossed \/ \A f \in Folder : folder[f].state /= "none" => 1 \in kbBreadcrumb(f)

\* Zyra's memory outlives its folder and stays where a listing shows it.
MemoryKept ==
  \A d \in Doc : doc[d].memory /\ <<"doc", d>> \notin stray
                 => d \in kbDocument /\ doc[d].folder \in kbFolder

\* A file that is listed can be downloaded.
FilesHaveBytes == \A x \in kbFileRow : <<"file", x>> \in stray \/ getKnowledgeFileAccess(x)

\* No reply outlives its thread.
ThreadsWhole ==
  \A c \in Comments : <<"comment", c>> \in stray \/ c \in listKnowledgeDocumentComments(comment[c].doc)

\* The tiles, the search, the export of the root and the walk through the folders count the
\* same things.
ListingsAgree ==
  LET E == exportKnowledgeFolder(1) IN
  crossed \/ stray /= {} \/
  /\ knowledgeBaseSummary.docs = Cardinality(E.docs) /\ knowledgeBaseSummary.docs = folderCounts(1).docs
  /\ knowledgeBaseSummary.files = Cardinality(E.files) /\ knowledgeBaseSummary.files = folderCounts(1).files
  /\ searchKnowledgeBase.docs = UNION {listKnowledgeFolderItems(f).docs : f \in LiveSubtree(1)}
  /\ searchKnowledgeBase.docs = listKnowledgeDocuments("general") \cup listKnowledgeDocuments("ai_memory")
  /\ searchKnowledgeBase.folders \ {1} = UNION {listKnowledgeFolderItems(f).folders : f \in LiveSubtree(1)}

\* What the Knowledge Base was given is kept and found: the tree hangs together, Zyra's memory
\* is never lost to a deletion, listed files have their bytes, replies have their thread, and
\* all the views agree - as long as no write rested on a read that had become stale.
KnowledgeKept == FoldersFormTree /\ MemoryKept /\ FilesHaveBytes /\ ThreadsWhole /\ ListingsAgree
=============================================================================
