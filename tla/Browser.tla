------------------------------- MODULE Browser -------------------------------
(***************************************************************************)
(* kernel/div.c: the file browser, over the table of module Rmfs, with the *)
(* `div` command that starts it (kernel.c) and the two screens it opens:   *)
(* the viewer, and the editor, of which only the effect on the file        *)
(* matters here (module Editor has the rest).                              *)
(*                                                                         *)
(* The listing is built when a folder is entered and is used until the     *)
(* next one is built, while the files may change underneath.               *)
(***************************************************************************)
EXTENDS RmfsQueries, SequencesExt

CONSTANTS
  DIV_MAX_ENTRIES,   \* the size of the listing
  DIV_ROWS           \* the entries on a page

ASSUME BrowserAssumption == DIV_MAX_ENTRIES \in Nat \ {0} /\ DIV_ROWS \in Nat \ {0}

VARIABLES
  mode,          \* the screen: "shell", "browse", "view" or "edit"
  cur,           \* the folder, << >> for the root
  div_entries,   \* the listing, a sequence of entries
  sel, top,      \* the entry selected and the first one on the page, from 0
  path,          \* the file in the viewer or the editor
  caller         \* where that screen returns to: "shell", "browse" or "none"

browserVars == <<files, reply, mode, cur, div_entries, sel, top, path, caller>>

-----------------------------------------------------------------------------
(* The listing.  Below the folder dir, a file is shown by its name and all *)
(* files of a subfolder together by the name of the subfolder.             *)
EntryOf(dir, e) ==
  LET n == e.name
      k == Len(dir) + 1
  IN  IF Len(n) = k
        THEN [name |-> n[k], path |-> n, is_dir |-> FALSE, size |-> e.size]
        ELSE [name |-> n[k], path |-> SubSeq(n, 1, k), is_dir |-> TRUE, size |-> 0]

div_add(list, x) ==
  IF \/ x.is_dir /\ \E k \in DOMAIN list : list[k].is_dir /\ list[k].name = x.name
     \/ Len(list) >= DIV_MAX_ENTRIES
    THEN list
    ELSE Append(list, x)

NamePathOf(dir, e) ==   \* a bug: a file is opened by the name that is shown
  [EntryOf(dir, e) EXCEPT !.path = IF EntryOf(dir, e).is_dir THEN @ ELSE <<Last(e.name)>>]

div_collect_one(dir, e) == EntryOf(dir, e)

div_collect(dir, ls) ==
  FoldLeft(LAMBDA list, e : IF ls_dir_one(dir, e) THEN div_add(list, div_collect_one(dir, e))
                                                   ELSE list,
           << >>, ls)

(* A new listing starts at its first entry.  ls is the table as it is when *)
(* the listing is built, which in SaveEditor is after the write.           *)
NoScreen == path' = << >> /\ caller' = "none"

BuildKeepsSelection(dir, ls) ==   \* a bug: sel and top outlive the listing
  /\ mode' = "browse" /\ cur' = dir
  /\ div_entries' = div_collect(dir, ls)
  /\ UNCHANGED <<sel, top>>
  /\ NoScreen

Browse(dir, ls) ==
  /\ mode' = "browse" /\ cur' = dir
  /\ div_entries' = div_collect(dir, ls)
  /\ sel' = 0 /\ top' = 0
  /\ NoScreen

(* Back in the shell, nothing of the browser is read again before it is    *)
(* set anew, and the model forgets it.                                     *)
Return ==
  /\ mode' = "shell" /\ cur' = << >> /\ div_entries' = << >>
  /\ sel' = 0 /\ top' = 0
  /\ NoScreen

-----------------------------------------------------------------------------
(* The shell: other commands change the files, `div dir` opens the browser *)
(* on a folder with files, or the viewer on a file.                        *)
ShellCommand ==
  /\ mode = "shell"
  /\ \E n \in Names : rmfs_rm(n) \/ \E d \in Contents : rmfs_write(n, d)
  /\ UNCHANGED <<mode, cur, div_entries, sel, top, path, caller>>

(* div_view and editor_open read the file before they wait for a key.      *)
View(p, from) ==
  /\ rmfs_read(p, MaxSize)
  /\ mode' = "view" /\ path' = p /\ caller' = from

DivUnchecked(dir) ==   \* a bug: whatever is typed is taken for a folder
  /\ mode = "shell"
  /\ UNCHANGED <<files, reply>>
  /\ Browse(Stripped(dir), rmfs_ls)

div(dir) ==
  /\ mode = "shell"
  /\ \/ /\ rmfs_ls_dir(dir) # << >>
        /\ UNCHANGED <<files, reply>>
        /\ Browse(Stripped(dir), rmfs_ls)
     \/ /\ rmfs_ls_dir(dir) = << >> /\ Named(dir) # {}
        /\ View(dir, "shell")
        /\ UNCHANGED <<cur, div_entries, sel, top>>

div_root ==
  /\ mode = "shell"
  /\ UNCHANGED <<files, reply>>
  /\ Browse(<< >>, rmfs_ls)

-----------------------------------------------------------------------------
(* The keys of the browser.                                                *)
Browsing == mode = "browse"
Stay     == UNCHANGED <<files, reply, mode, cur, div_entries, path, caller>>

Up ==
  /\ Browsing
  /\ sel > 0
  /\ sel' = sel - 1
  /\ top' = IF sel - 1 < top THEN sel - 1 ELSE top
  /\ Stay

DownNoScroll ==   \* a bug: the page follows one row too late
  /\ Browsing
  /\ sel + 1 < Len(div_entries)
  /\ sel' = sel + 1
  /\ top' = IF sel + 1 > top + DIV_ROWS THEN sel + 1 - DIV_ROWS ELSE top
  /\ Stay

Down ==
  /\ Browsing
  /\ sel + 1 < Len(div_entries)
  /\ sel' = sel + 1
  /\ top' = IF sel + 1 >= top + DIV_ROWS THEN sel + 1 - DIV_ROWS + 1 ELSE top
  /\ Stay

Left ==
  /\ Browsing
  /\ UNCHANGED <<files, reply>>
  /\ IF cur = << >>
       THEN Return
       ELSE Browse(Front(cur), rmfs_ls)

Esc ==
  /\ Browsing
  /\ Return
  /\ UNCHANGED <<files, reply>>

Selected == div_entries[sel + 1]

(* Right or Enter; with Shift, a file is edited.                           *)
EnterFolder ==
  /\ Browsing /\ div_entries # << >> /\ Selected.is_dir
  /\ UNCHANGED <<files, reply>>
  /\ Browse(Selected.path, rmfs_ls)

OpenViewer ==
  /\ Browsing /\ div_entries # << >> /\ ~Selected.is_dir
  /\ View(Selected.path, "browse")
  /\ UNCHANGED <<cur, div_entries, sel, top>>

OpenEditor ==
  /\ Browsing /\ div_entries # << >> /\ ~Selected.is_dir
  /\ rmfs_read(Selected.path, MaxSize)
  /\ mode' = "edit" /\ path' = Selected.path /\ caller' = "browse"
  /\ UNCHANGED <<cur, div_entries, sel, top>>

(* div_view returns on Esc, to where it was called.                        *)
LeaveViewer ==
  /\ mode = "view"
  /\ UNCHANGED <<files, reply>>
  /\ IF caller = "shell"
       THEN Return
       ELSE Browse(cur, rmfs_ls)

(* editor_open returns on Esc, or on F2 once the text is saved.            *)
QuitEditor ==
  /\ mode = "edit"
  /\ UNCHANGED <<files, reply>>
  /\ Browse(cur, rmfs_ls)

SaveKeepsListing(d) ==   \* a bug: `continue` for `break` after the editor
  /\ mode = "edit"
  /\ rmfs_write(path, d)
  /\ mode' = IF reply'.ret = 0 THEN "browse" ELSE "edit"
  /\ NoScreen
  /\ UNCHANGED <<cur, div_entries, sel, top>>

SaveEditor(d) ==
  /\ mode = "edit"
  /\ rmfs_write(path, d)
  /\ IF reply'.ret = 0
       THEN Browse(cur, rmfs_ls')
       ELSE UNCHANGED <<mode, cur, div_entries, sel, top, path, caller>>

BrowserInit ==
  /\ Init
  /\ mode = "shell" /\ cur = << >> /\ div_entries = << >>
  /\ sel = 0 /\ top = 0
  /\ path = << >> /\ caller = "none"

BrowserNext ==
  \/ ShellCommand \/ div_root \/ \E dir \in Dirs : div(dir)
  \/ Up \/ Down \/ Left \/ Esc
  \/ EnterFolder \/ OpenViewer \/ OpenEditor
  \/ LeaveViewer \/ QuitEditor
  \/ \E d \in {c \in Contents : Len(c) <= MaxSize} : SaveEditor(d)

BrowserSpec == BrowserInit /\ [][BrowserNext]_browserVars
-----------------------------------------------------------------------------
(* The children of a folder, as the map of files has them.                 *)
Below(dir)    == {n \in DOMAIN Store : Len(n) > Len(dir) /\ SubSeq(n, 1, Len(dir)) = dir}
Children(dir) == {EntryOf(dir, [name |-> n, size |-> Len(Store[n])]) : n \in Below(dir)}

(* The browser shows the folder as it is: each file and subfolder of it    *)
(* once, with its size, also when it comes back from the viewer or the     *)
(* editor, and the table of entries is large enough for all.               *)
ListingCurrent ==
  Browsing => /\ Range(div_entries) = Children(cur)
              /\ Len(div_entries) = Cardinality(Children(cur))

(* The entry selected is one of the listing and on the page.               *)
SelectionOnPage ==
  Browsing => IF div_entries = << >>
                THEN sel = 0 /\ top = 0
                ELSE sel < Len(div_entries) /\ sel \in top .. top + DIV_ROWS - 1

(* A file opened exists: the viewer never says "no such file", the editor  *)
(* never starts empty for a file that has a text.  A folder shown is never *)
(* empty, except the root: folders are there only by their files, and      *)
(* nothing removes a file while the browser is open.                       *)
OpenedExists ==
  /\ mode \in {"view", "edit"} => path \in DOMAIN Store
  /\ Browsing /\ cur # << >> => div_entries # << >>

(* F2 never fails on a file opened here, not even when the table is full:  *)
(* it is overwritten in its own slot, and no file is added.                *)
SaveSucceeds ==
  [][mode = "edit" /\ reply' # reply =>
       /\ reply'.op = "write" /\ reply'.ret = 0
       /\ DOMAIN Store' = DOMAIN Store]_browserVars
=============================================================================
