-------------------------- MODULE KnowledgeScreens --------------------------
(***************************************************************************)
(* The screens of the knowledge base: the folders and their items, and one *)
(* document with its comments and versions.                                *)
(***************************************************************************)
EXTENDS ScreenScript

----------------------------------------------------------------------------
(* knowledge-base/page.tsx *)

refresh == {"tree", "items", "summary"}

\* Opening a folder loads its items; an answer for a folder left meanwhile still lands.
selectFolder == Handler("selectFolder", {}, <<Up("itemsLoading"), Load({"items"})>>, {"itemsLoading"})

handleCreateFolder == Handler("handleCreateFolder", {},
  <<Up("saving"), Make(refresh), Hide("createFolder"), Load(refresh)>>, {"saving"})
handleRenameFolder == Handler("handleRenameFolder", {},
  <<Up("saving"), Write(refresh), Hide("rename"), Load(refresh)>>, {"saving"})
handleMove == Handler("handleMove", {},
  <<Up("saving"), Write(refresh), Hide("move"), Load(refresh)>>, {"saving"})

\* The confirmation first asks the server what the folder holds.
confirmFolderDelete == Load({})
handleFolderAction == Handler("handleFolderAction", {}, <<confirmFolderDelete, Write(refresh), Load(refresh)>>, {})
handleDeleteItem   == Handler("handleDeleteItem", {}, <<confirmFolderDelete, Write(refresh), Load(refresh)>>, {})

\* `saving` stays up after a success, until the route change takes the page away.
handleCreateDocument == HandlerC("handleCreateDocument", {},
  <<Up("saving"), Make(refresh), Hide("createDoc"), Depart>>, {}, <<Down("saving")>>)

\* Two batches: the first may be stored when the second fails.
handleUpload == HandlerC("handleUpload", {},
  <<Up("uploading"), Make(refresh), Make(refresh), Hide("upload"), Load(refresh)>>, {"uploading"}, <<Send(refresh)>>)

handleDuplicateDocument == Handler("handleDuplicateDocument", {}, <<Make(refresh), Load(refresh)>>, {})

\* The modals.  Their Cancel buttons are disabled while saving, Escape and the backdrop are
\* not; the upload's closing looks at `uploading` itself.
CreateFolderModal   == Control("createFolder", handleCreateFolder, {"saving"})
RenameFolderModal   == Control("rename", handleRenameFolder, {"saving"})
MoveModal           == Control("move", handleMove, {"saving"})
CreateDocumentModal == Control("createDoc", handleCreateDocument, {"saving"})
UploadModal         == Control("upload", handleUpload, {"uploading"})

KnowledgeDialogs == {Dialog(d, Page, {}) : d \in {"createFolder", "rename", "move", "createDoc"}}
                    \cup {Dialog("upload", Page, {"uploading"})}

\* The tree and the table of items.
FolderTreePanel == {RowControl(Page, selectFolder, {}), RowControl(Page, handleFolderAction, {})}
ItemTable       == {RowControl(Page, handleDuplicateDocument, {}), RowControl(Page, handleDeleteItem, {})}

KnowledgeScreen == Screen(KnowledgeDialogs,
  {CreateFolderModal, RenameFolderModal, MoveModal, CreateDocumentModal, UploadModal}
  \cup FolderTreePanel \cup ItemTable)

----------------------------------------------------------------------------
(* knowledge-base/documents/[documentId]/page.tsx and DocumentComments.tsx *)

\* Typing arms a timer that saves what is typed by then; the Save button saves at once.
\* Nothing orders two saves.
scheduleSave     == Handler("scheduleSave", {}, <<Write({"document"}), Patch({"document"})>>, {})
handleManualSave == Handler("handleManualSave", {}, <<Write({"document"}), Patch({"document"})>>, {})

handleDuplicate == Handler("handleDuplicate", {}, <<Make({}), Depart>>, {})
handleDelete    == Handler("handleDelete", {}, <<Write({}), Depart>>, {})

openHistory == Handler("openHistory", {}, <<Show("history"), Load({"versions"})>>, {})
handleRestoreVersion == Handler("handleRestoreVersion", {},
  <<Write({"document"}), Patch({"document"}), Hide("history")>>, {})

handleApprove == Handler("handleApprove", {}, <<Write({"document"}), Patch({"document"})>>, {})
handleReject  == Handler("handleReject", {}, <<Write({"document"}), Patch({"document"})>>, {})

\* Comments.
refreshComments == {"threads"}
submitThread == Handler("submitThread", {}, <<Up("submitting"), Make(refreshComments), Load(refreshComments)>>, {"submitting"})
submitReply  == Handler("submitReply", {},
  <<Up("submitting"), Make(refreshComments), Hide("reply"), Load(refreshComments)>>, {"submitting"})
toggleResolved == Handler("toggleResolved", {}, <<Write(refreshComments), Load(refreshComments)>>, {})
removeComment  == Handler("remove", {}, <<Write(refreshComments), Load(refreshComments)>>, {})

DocumentHeader == {Timer(scheduleSave), Control(Page, handleManualSave, {}), Control(Page, handleDuplicate, {}),
                   Control(Page, openHistory, {}), Control(Page, handleDelete, {}),
                   Control(Page, handleApprove, {}), Control(Page, handleReject, {})}
HistoryModal   == RowControl("history", handleRestoreVersion, {})
ThreadForm     == Control(Page, submitThread, {"submitting"})
ThreadList     == {RowControl(Page, toggleResolved, {}), RowControl(Page, removeComment, {}),
                   Control("reply", submitReply, {"submitting"})}

DocumentScreen == Screen({Dialog("history", ByHandler, {}), Inline("reply", Page, {})},
                         DocumentHeader \cup {HistoryModal, ThreadForm} \cup ThreadList)
=============================================================================
