------------------------------ MODULE SftpFiles ------------------------------
(* The files of the SFTP server: the volume, the handlers of adapter-control  *)
(* that work on it, and the file browser of the page "SFTP Server".  A path   *)
(* is the sequence of its names, <<>> the root.  A name is always that of a   *)
(* file or always that of a folder; contents are left out, and a preview      *)
(* stands for the file it was read from.  The forms for the name of a new     *)
(* entry are part of the step that submits them.                              *)
EXTENDS WebPage

CONSTANTS Entries,      \* the paths a volume may hold
          FileNames,    \* the names of files
          Failure,      \* an error for an answer
          MaxOrders     \* requests in flight

IsFile(p) == p # <<>> /\ Last(p) \in FileNames
Folders == {<<>>} \cup {p \in Entries : ~IsFile(p)}
Files == {p \in Entries : IsFile(p)}

ASSUME EntriesOfFolders ==
    /\ Entries \subseteq Seq(STRING) /\ Nothing \notin Folders
    /\ \A p \in Entries : p # <<>> /\ Front(p) \in Folders

(* A volume holds the folder of each of its entries.                          *)
Volumes == {V \in SUBSET Entries : \A p \in V : Front(p) = <<>> \/ Front(p) \in V}

Children(V, dir) == {p \in V : Front(p) = dir}
Below(V, p) == {q \in V : IsPrefix(p, q)}

(* Slip: the folder is taken to be there.                                     *)
AsItIs(V, dir) == V

(* os.MkdirAll: the folder and those above it.                                *)
MkdirAll(V, dir) == V \cup {p \in Folders \ {<<>>} : IsPrefix(p, dir)}

(* os.Rename: onto a file, or to where nothing is; never onto a folder.       *)
Renamed(V, from, to) ==
    (V \ Below(V, from)) \cup {to \o SubSeq(p, Len(from) + 1, Len(p)) : p \in Below(V, from)}

CanRename(V, from, to) == from \in V /\ (to \in V => IsFile(from) /\ IsFile(to))

VARIABLES volume,       \* the entries on the disk
          browser       \* the page and its requests in flight

fileVars == <<volume, browser>>

NoModal == [kind |-> "none"]
Preview(file) == [kind |-> "preview", file |-> file, content |-> Nothing, loading |-> TRUE]

(* The dialog's FolderPicker has requests of its own, which come to nothing   *)
(* when it is closed.                                                         *)
Browse(path) == [path |-> path, got |-> Nothing]
MoveDialog(entry) ==
    [kind |-> "move", entry |-> entry, browse |-> <<>>, folders |-> {}, asked |-> <<Browse(<<>>)>>]

(* A request: the path it is about, the place a move leads to, the folder     *)
(* shown when a change was made, its answer.  A "moveHere" is the dialog's,   *)
(* and the "listHere" that follows it closes the dialog.                      *)
Order(op, path, to, at) == [op |-> op, path |-> path, to |-> to, at |-> at, got |-> Nothing]

List(path) == Order("list", path, Nothing, Nothing)

(* "clean" is history: requests were answered in the order they were sent,    *)
(* none failed, no other folder was opened while a change was under way and   *)
(* no client wrote.                                                           *)
FilesInit ==
    /\ volume \in Volumes
    /\ browser = [cur |-> <<>>, items |-> {}, modal |-> NoModal, clean |-> TRUE,
                  flight |-> <<List(<<>>)>>]

CanOrder ==
    Len(browser.flight) + (IF browser.modal.kind = "move" THEN Len(browser.modal.asked) ELSE 0) < MaxOrders

NoModalOpen == browser.modal = NoModal

Ordered(o) == browser' = [browser EXCEPT !.flight = Append(@, o)]

ChangeUnderWay == \E i \in DOMAIN browser.flight : browser.flight[i].at # Nothing

(* A click on a folder or on the breadcrumb: the effect on currentPath loads  *)
(* the folder.                                                                *)
navigate ==
    /\ NoModalOpen /\ CanOrder
    /\ \E dir \in {p \in browser.items : ~IsFile(p)} \cup {p \in Folders : IsStrictPrefix(p, browser.cur)} :
         browser' = [browser EXCEPT !.cur = dir, !.clean = @ /\ ~ChangeUnderWay,
                       !.flight = IF dir = browser.cur THEN @ ELSE Append(@, List(dir))]
    /\ UNCHANGED volume

RefreshFolder == NoModalOpen /\ CanOrder /\ Ordered(List(browser.cur)) /\ UNCHANGED volume

(* createFile, createFolder: the open form's name, under the folder shown.    *)
Create ==
    /\ NoModalOpen /\ CanOrder
    /\ \E p \in Children(Entries, browser.cur) :
         Ordered(Order("create", p, Nothing, browser.cur))
    /\ UNCHANGED volume

(* loadAsset, and uploads by the button or by dropping files from the desktop *)
(* on the background or on the row of a folder.                               *)
Upload ==
    /\ NoModalOpen /\ CanOrder
    /\ \E dir \in {browser.cur} \cup (browser.items \ Files) : \E p \in Children(Files, dir) :
         Ordered(Order("upload", p, Nothing, browser.cur))
    /\ UNCHANGED volume

deleteEntry ==
    /\ NoModalOpen /\ CanOrder
    /\ \E e \in browser.items : Ordered(Order("delete", e, Nothing, browser.cur))
    /\ UNCHANGED volume

MoveOrder(op, e, dest) == Order(op, e, Append(dest, Last(e)), browser.cur)

(* A row is dropped on the row of another folder or on the breadcrumb.        *)
DropEntry ==
    /\ NoModalOpen /\ CanOrder
    /\ \E e \in browser.items :
         \E dest \in {p \in browser.items : ~IsFile(p)} \cup {p \in Folders : IsStrictPrefix(p, browser.cur)} :
            e # dest /\ Ordered(MoveOrder("move", e, dest))
    /\ UNCHANGED volume

OpenMoveDialog ==
    /\ NoModalOpen /\ CanOrder
    /\ \E e \in browser.items : browser' = [browser EXCEPT !.modal = MoveDialog(e)]
    /\ UNCHANGED volume

(* FolderPicker: folders of the folder browsed, without the entry to move.    *)
BrowseFolder ==
    /\ browser.modal.kind = "move" /\ CanOrder
    /\ \E dir \in {p \in browser.modal.folders : ~IsPrefix(browser.modal.entry, p)}
                  \cup {p \in Folders : IsStrictPrefix(p, browser.modal.browse)} :
         browser' = [browser EXCEPT !.modal.browse = dir,
                       !.modal.asked = IF dir = browser.modal.browse THEN @ ELSE Append(@, Browse(dir))]
    /\ UNCHANGED volume

MoveHere ==
    /\ browser.modal.kind = "move" /\ CanOrder
    /\ Ordered(MoveOrder("moveHere", browser.modal.entry, browser.modal.browse))
    /\ UNCHANGED volume

(* A click on a file opens its preview; while it is open it covers the page.  *)
openPreview ==
    /\ NoModalOpen /\ CanOrder
    /\ \E f \in browser.items \cap Files :
         browser' = [browser EXCEPT !.modal = Preview(f),
                       !.flight = Append(@, Order("view", f, Nothing, Nothing))]
    /\ UNCHANGED volume

CloseModal == ~NoModalOpen /\ browser' = [browser EXCEPT !.modal = NoModal] /\ UNCHANGED volume

SFTPServer ==
    \/ navigate \/ RefreshFolder \/ Create \/ Upload \/ deleteEntry \/ DropEntry
    \/ OpenMoveDialog \/ BrowseFolder \/ MoveHere \/ openPreview \/ CloseModal

Answered(i, got) == browser' = [browser EXCEPT !.flight[i].got = got]

(* GET /sftp/files: a folder that is gone is listed as an empty one.          *)
ServeList(i, o) == Answered(i, Children(volume, o.path)) /\ UNCHANGED volume

ServePicker ==
    /\ browser.modal.kind = "move"
    /\ \E i \in DOMAIN browser.modal.asked :
         /\ browser.modal.asked[i].got = Nothing
         /\ browser' = [browser EXCEPT !.modal.asked[i].got = Children(volume, browser.modal.asked[i].path)]
    /\ UNCHANGED volume

ServeRead(i, o) == Answered(i, IF o.path \in volume THEN o.path ELSE Failure) /\ UNCHANGED volume

(* Folders are made as needed, also for the folder that a file is put into.   *)
ServeWrite(i, o) ==
    /\ volume' = MkdirAll(volume, Front(o.path)) \cup {o.path}
    /\ Answered(i, "done")

(* An upload is answered as stored also when a file could not be written.     *)
ServeUpload(i, o) ==
    /\ volume' \in {MkdirAll(volume, Front(o.path)), MkdirAll(volume, Front(o.path)) \cup {o.path}}
    /\ Answered(i, "done")

(* os.RemoveAll does not mind that there is nothing.                          *)
ServeDelete(i, o) == volume' = volume \ Below(volume, o.path) /\ Answered(i, "done")

(* A folder is not moved into itself; the folder above the destination is     *)
(* made before the rename that may fail.  The last conjunct bounds the depth. *)
ServeMove(i, o) ==
    IF IsPrefix(o.path, o.to) THEN Answered(i, Failure) /\ UNCHANGED volume
    ELSE LET made == MkdirAll(volume, Front(o.to))
             moves == CanRename(made, o.path, o.to)
         IN  /\ volume' = IF moves THEN Renamed(made, o.path, o.to) ELSE made
             /\ Answered(i, IF moves THEN "done" ELSE Failure)
             /\ volume' \subseteq Entries

FilesServe ==
    \E i \in DOMAIN browser.flight :
        LET o == browser.flight[i] IN
        /\ o.got = Nothing
        /\ \/ o.op \in {"list", "listHere"} /\ ServeList(i, o)
           \/ o.op = "view" /\ ServeRead(i, o)
           \/ o.op = "create" /\ ServeWrite(i, o)
           \/ o.op = "upload" /\ ServeUpload(i, o)
           \/ o.op = "delete" /\ ServeDelete(i, o)
           \/ o.op \in {"move", "moveHere"} /\ ServeMove(i, o)

(* An SFTP client puts or removes a file.                                     *)
ClientWrites ==
    /\ \E f \in Files : volume' \in {MkdirAll(volume, Front(f)) \cup {f}, volume \ {f}}
    /\ browser' = [browser EXCEPT !.clean = FALSE]

(* Slip: the page puts in or takes out the row by itself.                     *)
RowsByHand(p, o) == [p EXCEPT !.items = IF o.op = "delete" THEN @ \ {o.path} ELSE @ \cup {o.path}]

(* After a change the page loads the folder shown when it was made.           *)
Reloaded(p, o) ==
    LET op == IF o.op = "moveHere" THEN "listHere" ELSE "list"
    IN  [p EXCEPT !.flight = Append(@, Order(op, o.at, Nothing, Nothing))]

(* setMoveDialog(null), whichever entry the dialog is about by now.           *)
DialogShut(modal) == IF modal.kind = "move" THEN NoModal ELSE modal

(* What the page does with an answer.                                         *)
Done(p, o) ==
    CASE o.op = "list" -> [p EXCEPT !.items = o.got]
      [] o.op = "listHere" -> [p EXCEPT !.items = o.got, !.modal = DialogShut(@)]
      [] o.op = "view" ->
            IF p.modal.kind = "preview" THEN [p EXCEPT !.modal.content = o.got, !.modal.loading = FALSE]
            ELSE p
      [] OTHER -> Reloaded(p, o)

(* A failed view shows its error for a content; the rest shows a strip.       *)
NotDone(p, o) ==
    CASE o.op = "view" /\ p.modal.kind = "preview" ->
            [p EXCEPT !.modal.content = Failure, !.modal.loading = FALSE]
      [] o.op \in {"moveHere", "listHere"} -> [p EXCEPT !.modal = DialogShut(@)]
      [] OTHER -> p

(* The picker shows the folders of an answer; a failed one leaves them.       *)
PickerSettles ==
    /\ browser.modal.kind = "move"
    /\ \E i \in DOMAIN browser.modal.asked :
         LET got == browser.modal.asked[i].got
             p == [browser EXCEPT !.modal.asked = RemoveAt(@, i)]
         IN  browser' = p \/ (got # Nothing /\ browser' = [p EXCEPT !.modal.folders = got \ Files])
    /\ UNCHANGED volume

OrderSettles(i) ==
    /\ i \in DOMAIN browser.flight
    /\ LET o == browser.flight[i]
           p == [browser EXCEPT !.flight = RemoveAt(@, i), !.clean = @ /\ i = 1]
       IN  \/ o.got \notin {Nothing, Failure} /\ browser' = Done(p, o)
           \/ browser' = [NotDone(p, o) EXCEPT !.clean = FALSE]
    /\ UNCHANGED volume

FilesNext ==
    \/ SFTPServer \/ FilesServe \/ ServePicker \/ ClientWrites \/ PickerSettles
    \/ \E i \in DOMAIN browser.flight : OrderSettles(i)

(* A request is answered or fails, the oldest one too.                        *)
FilesFairness == WF_fileVars(OrderSettles(1))

FilesSpec == FilesInit /\ [][FilesNext]_fileVars /\ FilesFairness

(* The volume stays one in which every entry has its folder.                  *)
FilesTypeOK ==
    /\ volume \in Volumes
    /\ browser.cur \in Folders /\ browser.items \subseteq Entries
    /\ browser.modal.kind = "preview" =>
         browser.modal.file \in Files /\ browser.modal.content \in Files \cup {Nothing, Failure}
    /\ browser.modal.kind = "move" =>
         /\ browser.modal.entry \in Entries /\ browser.modal.browse \in Folders
         /\ browser.modal.folders \subseteq Folders
         /\ \A i \in DOMAIN browser.modal.asked : browser.modal.asked[i].path \in Folders

(* When nothing is in flight, the rows are what the volume has in the folder  *)
(* shown, after whatever the page created, uploaded, moved and deleted.  Only *)
(* an answer that overtook another, a failed request, a client, or a folder   *)
(* opened while a change was under way breaks this: the reload after a change *)
(* is of the folder shown when it was made (SFTPServer.tsx, loadPath).        *)
RowsAreOfFolder ==
    browser.flight = <<>> /\ browser.clean => browser.items = Children(volume, browser.cur)
===============================================================================
