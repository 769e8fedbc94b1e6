------------------------------- MODULE Files -------------------------------
(***************************************************************************)
(* The functions of lstd/path/path.nt.ixx that query and change files, as  *)
(* several processes call them.  Each is a sequence of calls to Windows,   *)
(* and anything may happen between two of them.  Windows itself, which is  *)
(* external, keeps the files and the open handles: it refuses a handle     *)
(* whose access another does not share, and may refuse any call.  Some     *)
(* functions do not look whether it did, and go on.  Checks that open, ask *)
(* and close are one step, and closing comes with the last call before it, *)
(* since it only lets more calls of others succeed.  An assert that fires  *)
(* stops the process.                                                      *)
(***************************************************************************)
EXTENDS Integers, SequencesExt

CONSTANTS Process,
          Path,         \* absolute paths, sequences of names
          Root,         \* the directory that walks start from, above all of Path
          Data,         \* what is written
          InitialFiles, InitialDirs,
          SizeLimit,    \* stands for 2^32, from where on sizes are cut
          MaxContents,  \* bound: the length of a file
          MaxCalls      \* bound: the calls of a process

VARIABLES files,    \* of every file: its contents
          dirs,
          handles,  \* the open ones
          calls,    \* of each process: the call under way, or the last one
          made,     \* of each process: the number of its calls
          stable    \* history: what was there ever since a process began its last walk

vars == <<files, dirs, handles, calls, made, stable>>

Idle == [op |-> "idle", step |-> "done", path |-> Root, dest |-> Root, may |-> FALSE, mode |-> "Append",
         data |-> <<>>, pointer |-> 0, seen |-> <<>>, walkers |-> <<>>, listed |-> <<>>, missed |-> {}, ok |-> FALSE]

Exists(path) == path \in DOMAIN files \cup dirs
Parent(path) == Front(path)
Join(dir, name) == Append(dir, name)
Children(dir) == {p \in DOMAIN files \cup dirs : p # Root /\ Parent(p) = dir}
Below(dir) == {p \in DOMAIN files \cup dirs : p # dir /\ IsPrefix(dir, p)}

\* Paths have names, files hold sequences, and what is there at first lies in directories.
FilesAssumption ==
    /\ \A path \in Path : path \in Seq(ToSet(path)) /\ path # <<>>
    /\ Root \in InitialDirs /\ InitialDirs \subseteq Path \cup {Root} /\ DOMAIN InitialFiles \subseteq Path
    /\ \A path \in (DOMAIN InitialFiles \cup InitialDirs) \ {Root} : Parent(path) \in InitialDirs
    /\ SizeLimit \in Nat \ {0}
    /\ Data \in Seq(ToSet(Data)) /\ \A f \in DOMAIN InitialFiles : InitialFiles[f] \in Seq(ToSet(InitialFiles[f]))

Init == /\ files = InitialFiles /\ dirs = InitialDirs
        /\ handles = {}
        /\ calls = [p \in Process |-> Idle]
        /\ made = [p \in Process |-> 0]
        /\ stable = [p \in Process |-> {}]

-----------------------------------------------------------------------------
(***************************************************************************)
(* Windows.                                                                *)
(***************************************************************************)
CanOpen(path, access, share) ==
    /\ path \in DOMAIN files
    /\ \A h \in handles : h.path = path => h.access \in share /\ access \in h.share
Handle(p, access, share) == [by |-> p, path |-> calls[p].path, access |-> access, share |-> share]
WithoutHandles(p) == {h \in handles : h.by # p}
\* Deleting, moving and replacing need that no handle is open: none shares that.
IsFree(path) == \A h \in handles : h.path # path
Existing == DOMAIN files \cup dirs

With(path, contents) == [f \in DOMAIN files \cup {path} |-> IF f = path THEN contents ELSE files[f]]
Without(path) == [f \in DOMAIN files \ {path} |-> files[f]]
Moved(source, path) == [f \in (DOMAIN files \ {source}) \cup {path} |-> IF f = path THEN files[source] ELSE files[f]]

\* CopyFileW and MoveFileExW; mayReplace is the flag they are given.
CanReplace(path, mayReplace) ==
    /\ path \in Path /\ path \notin dirs /\ Parent(path) \in dirs
    /\ path \in DOMAIN files => mayReplace /\ IsFree(path)

-----------------------------------------------------------------------------
At(p, op, step) == calls[p].op = op /\ calls[p].step = step
IsDone(p) == calls[p].step = "done"
GoTo(p, step) == calls' = [calls EXCEPT ![p].step = step]
Return(p, result) == calls' = [calls EXCEPT ![p].step = "done", ![p].ok = result]

Unchanged == UNCHANGED <<files, dirs, handles>>
\* A call to Windows that is refused ends the function, and its handle is closed.
Refused(p) == Return(p, FALSE) /\ handles' = WithoutHandles(p) /\ UNCHANGED <<files, dirs>>

\* What a function takes for true: a look that Windows refuses sees nothing.
Looks(truth) == {truth, FALSE}

\* Where a call that is refused is not noticed.
Missed(p, unnoticed) == IF unnoticed THEN calls[p].missed \cup {calls[p].path} ELSE calls[p].missed

Call(p, call) == /\ IsDone(p) /\ made[p] < MaxCalls
                 /\ made' = [made EXCEPT ![p] = @ + 1]
                 /\ calls' = [calls EXCEPT ![p] = call]
                 /\ Unchanged

-----------------------------------------------------------------------------
(***************************************************************************)
(* path_read_entire_file: the size, which is 0 when it is refused, and as  *)
(* many bytes as are left of it in 32 bits; the assert expects them all.   *)
(***************************************************************************)
ReadShare == {"read"}

OpenToRead(p) == /\ calls[p].op \in {"read", "file_size"} /\ calls[p].step = "open"
                 /\ CanOpen(calls[p].path, "read", ReadShare)
                 /\ handles' = handles \cup {Handle(p, "read", ReadShare)}
                 /\ calls' = [calls EXCEPT ![p].step = "opened", ![p].seen = files[calls[p].path]]
                 /\ UNCHANGED <<files, dirs>>
Sized(p, given) ==
    /\ calls[p].op \in {"read", "file_size"} /\ calls[p].step = "opened"
    /\ calls' = [calls EXCEPT ![p].step = IF calls[p].op = "read" THEN "sized" ELSE "done", ![p].ok = TRUE,
                              ![p].pointer = IF given THEN Len(files[calls[p].path]) ELSE 0,
                              ![p].missed = Missed(p, ~given)]
    /\ UNCHANGED <<files, dirs>>
\* A faulty version asks for the size with a handle of its own.
GetSizeAndClose(p) == Sized(p, TRUE) /\ handles' = WithoutHandles(p)
GetFileSize(p) == /\ \E given \in BOOLEAN : Sized(p, given)
                  /\ handles' = IF calls[p].op = "read" THEN handles ELSE WithoutHandles(p)
ReadFile(p) ==
    LET c == calls[p]
        bytesRead == c.pointer % SizeLimit
    IN  /\ At(p, "read", "sized")
        /\ calls' = [calls EXCEPT ![p].step = IF bytesRead = c.pointer THEN "done" ELSE "asserted", ![p].ok = TRUE,
                                  ![p].data = SubSeq(files[c.path], 1, bytesRead)]
        /\ handles' = WithoutHandles(p)
        /\ UNCHANGED <<files, dirs>>

-----------------------------------------------------------------------------
(***************************************************************************)
(* path_write_to_file: a file that is not there is made, empty.  It is not *)
(* noticed when moving to the end, or cutting there, is refused.           *)
(***************************************************************************)
OpenToWrite(p) ==
    LET path == calls[p].path
    IN  /\ At(p, "write", "open")
        /\ path \notin dirs /\ Parent(path) \in dirs
        /\ path \in DOMAIN files => CanOpen(path, "write", {})
        /\ files' = IF path \in DOMAIN files THEN files ELSE With(path, <<>>)
        /\ handles' = handles \cup {Handle(p, "write", {})}
        /\ calls' = [calls EXCEPT ![p].step = "opened", ![p].seen = files'[path]]
        /\ UNCHANGED dirs
Position(p) ==
    LET path == calls[p].path
        mode == calls[p].mode
    IN  /\ At(p, "write", "opened")
        /\ \E given \in BOOLEAN :
               /\ files' = IF given /\ mode = "Overwrite_Entire" THEN With(path, <<>>) ELSE files
               /\ calls' = [calls EXCEPT ![p].step = "positioned", ![p].seen = files'[path],
                               ![p].pointer = IF given /\ mode = "Append" THEN Len(files[path]) ELSE 0,
                               ![p].missed = Missed(p, ~given)]
        /\ UNCHANGED <<dirs, handles>>
Overwritten(contents, data, pointer) ==
    SubSeq(contents, 1, pointer) \o data \o SubSeq(contents, pointer + Len(data) + 1, Len(contents))
WriteFile(p) ==
    LET c == calls[p]
        written == SubSeq(c.data, 1, Len(c.data) % SizeLimit)
        after == Overwritten(files[c.path], written, c.pointer)
    IN  /\ At(p, "write", "positioned")
        /\ Len(after) <= MaxContents
        /\ files' = With(c.path, after)
        /\ Return(p, Len(written) = Len(c.data))
        /\ handles' = WithoutHandles(p)
        /\ UNCHANGED dirs

-----------------------------------------------------------------------------
(***************************************************************************)
(* The functions that look before they call: what they saw may be gone.    *)
(***************************************************************************)
IsFile(path) == path \in DOMAIN files
IsDirectory(path) == path \in dirs
\* What is being written cannot be opened, and counts as missing.
IsSeen(path) == IsDirectory(path) \/ CanOpen(path, "read", ReadShare)

Check(p) ==
    LET c == calls[p]
        found == CASE c.op \in {"delete_file", "copy", "move"} -> IsFile(c.path)
                   [] c.op \in {"delete_directory", "file_size"} -> IsDirectory(c.path)
                   [] c.op \in {"create_directory", "rename"} -> IsSeen(c.path)
                   [] OTHER -> FALSE
        next == IF c.op \in {"copy", "move"} THEN "target" ELSE IF c.op = "file_size" THEN "open" ELSE "act"
    IN  /\ c.step = "check"
        /\ \E seen \in Looks(found) :
               IF seen <=> c.op \notin {"file_size", "create_directory"} THEN GoTo(p, next) ELSE Return(p, FALSE)
        /\ Unchanged

\* A directory as the destination stands for the file of the same name in it.
Target(p) == LET c == calls[p]
             IN  /\ c.step = "target"
                 /\ \E seen \in Looks(IsDirectory(c.dest)) :
                        calls' = [calls EXCEPT ![p].step = "act", ![p].dest = IF seen THEN Join(@, Last(c.path)) ELSE @]
                 /\ Unchanged

\* A faulty version takes the flag of CopyFileW, which forbids to replace, for the one that allows it.
CopyInverted(p) == /\ At(p, "copy", "act")
                   /\ IsFile(calls[p].path) /\ CanReplace(calls[p].dest, ~calls[p].may)
                   /\ files' = With(calls[p].dest, files[calls[p].path])
                   /\ Return(p, TRUE)
                   /\ UNCHANGED <<dirs, handles>>
CopyFile(p) == /\ At(p, "copy", "act")
               /\ calls[p].dest # calls[p].path
               /\ CanOpen(calls[p].path, "read", ReadShare) /\ CanReplace(calls[p].dest, calls[p].may)
               /\ files' = With(calls[p].dest, files[calls[p].path])
               /\ Return(p, TRUE)
               /\ UNCHANGED <<dirs, handles>>
MoveFile(p) == /\ calls[p].op \in {"move", "rename"} /\ calls[p].step = "act"
               /\ IsFile(calls[p].path) /\ IsFree(calls[p].path)
               /\ calls[p].dest = calls[p].path \/ CanReplace(calls[p].dest, calls[p].may)
               /\ files' = Moved(calls[p].path, calls[p].dest)
               /\ Return(p, TRUE)
               /\ UNCHANGED <<dirs, handles>>
DeleteFile(p) == /\ At(p, "delete_file", "act")
                 /\ IsFile(calls[p].path) /\ IsFree(calls[p].path)
                 /\ files' = Without(calls[p].path)
                 /\ Return(p, TRUE)
                 /\ UNCHANGED <<dirs, handles>>
CreateDirectory(p) == /\ At(p, "create_directory", "act")
                      /\ ~Exists(calls[p].path) /\ Parent(calls[p].path) \in dirs
                      /\ dirs' = dirs \cup {calls[p].path}
                      /\ Return(p, TRUE)
                      /\ UNCHANGED <<files, handles>>
RemoveDirectory(p) == /\ At(p, "delete_directory", "act")
                      /\ calls[p].path \in dirs \ {Root} /\ Children(calls[p].path) = {}
                      /\ dirs' = dirs \ {calls[p].path}
                      /\ Return(p, TRUE)
                      /\ UNCHANGED <<files, handles>>

-----------------------------------------------------------------------------
(***************************************************************************)
(* path_walk, recursively: a walker for each directory on the way down.    *)
(* FindFirstFileW takes the entries of a directory and FindNextFileW gives *)
(* them one by one, in whatever order.  When one of them is refused the    *)
(* directory ends there, without a word.  The assert at the beginning of a *)
(* directory fires if it is gone by then.                                  *)
(***************************************************************************)
Walker(dir) == [dir |-> dir, entries |-> Children(dir)]

EnterDirectory(p) == /\ At(p, "walk", "enter")
                     /\ \E seen \in Looks(IsDirectory(calls[p].path)) : GoTo(p, IF seen THEN "find" ELSE "asserted")
                     /\ Unchanged

\* Where a walk goes on when a directory ends.
GoesOn(walkers) == IF walkers = <<>> THEN "done" ELSE "next"

FindFirst(p) ==
    LET c == calls[p]
    IN  /\ At(p, "walk", "find")
        /\ \/ IsDirectory(c.path)
              /\ calls' = [calls EXCEPT ![p].step = "next", ![p].walkers = Append(@, Walker(c.path))]
           \/ calls' = [calls EXCEPT ![p].step = GoesOn(c.walkers), ![p].missed = Missed(p, TRUE), ![p].ok = TRUE]
        /\ Unchanged

\* A directory ends, and the one above goes on.
Leave(walkers) == Front(walkers)

EndDirectory(p) ==
    LET c == calls[p]
        rest == Leave(c.walkers)
        ended == Last(c.walkers)
    IN  /\ At(p, "walk", "next")
        /\ calls' = [calls EXCEPT ![p].walkers = rest, ![p].ok = TRUE, ![p].step = GoesOn(rest),
                                  ![p].missed = IF ended.entries = {} THEN @ ELSE @ \cup {ended.dir}]
        /\ Unchanged

ReadNextEntry(p) ==
    LET c == calls[p]
    IN  /\ At(p, "walk", "next")
        /\ \E entry \in Last(c.walkers).entries :
               calls' = [calls EXCEPT ![p].walkers[Len(c.walkers)].entries = @ \ {entry},
                                      ![p].listed = Append(@, entry), ![p].path = entry, ![p].step = "listed"]
        /\ Unchanged

EntryIsDirectory(p) ==
    LET isDirectory == IsDirectory(calls[p].path)
    IN  /\ At(p, "walk", "listed")
        /\ \E seen \in Looks(isDirectory) :
               calls' = [calls EXCEPT ![p].step = IF seen THEN "enter" ELSE "next",
                                      ![p].missed = Missed(p, seen # isDirectory)]
        /\ Unchanged

-----------------------------------------------------------------------------
Refuse(p) == calls[p].step \in {"open", "sized", "positioned", "act"} /\ Refused(p)

Checked == {"delete_file", "delete_directory", "create_directory", "file_size"}

Begin(p) ==
    \E path \in Path :
       \/ Call(p, [Idle EXCEPT !.op = "read", !.step = "open", !.path = path])
       \/ \E mode \in {"Append", "Overwrite", "Overwrite_Entire"} :
             Call(p, [Idle EXCEPT !.op = "write", !.step = "open", !.path = path, !.mode = mode, !.data = Data])
       \/ \E op \in Checked : Call(p, [Idle EXCEPT !.op = op, !.step = "check", !.path = path])
       \/ \E op \in {"copy", "move"}, dest \in Path, overwrite \in BOOLEAN :
             Call(p, [Idle EXCEPT !.op = op, !.step = "check", !.path = path, !.dest = dest, !.may = overwrite])
       \/ \E newName \in {Last(q) : q \in Path} :
             Call(p, [Idle EXCEPT !.op = "rename", !.step = "check", !.path = path, !.dest = Join(Parent(path), newName)])
       \/ Call(p, [Idle EXCEPT !.op = "walk", !.step = "enter", !.path = Root])

Acts(p) ==
    \/ OpenToRead(p) \/ GetFileSize(p) \/ ReadFile(p) \/ OpenToWrite(p) \/ Position(p) \/ WriteFile(p)
    \/ Check(p) \/ Target(p) \/ CopyFile(p) \/ MoveFile(p) \/ DeleteFile(p) \/ CreateDirectory(p) \/ RemoveDirectory(p)
    \/ EnterDirectory(p) \/ FindFirst(p) \/ EndDirectory(p) \/ ReadNextEntry(p) \/ EntryIsDirectory(p) \/ Refuse(p)

Next == /\ \E p \in Process : Begin(p) \/ (Acts(p) /\ UNCHANGED made)
        /\ stable' = [p \in Process |-> IF made'[p] = made[p] THEN stable[p] \cap Existing'
                                        ELSE IF calls'[p].op = "walk" THEN Existing' \ {Root} ELSE {}]

Spec == Init /\ [][Next]_vars

-----------------------------------------------------------------------------
TypeOK == /\ DOMAIN files \subseteq Path /\ dirs \subseteq Path \cup {Root}
          /\ \A h \in handles : h.by \in Process /\ h.path \in Path
          /\ \A p \in Process : calls[p].seen \in Seq(ToSet(Data) \cup UNION {ToSet(InitialFiles[f]) : f \in DOMAIN InitialFiles})

\* path.nt.ixx, lines 660-691: while a process has a file open, nobody else changes or removes
\* it; what is read is what was there when it was opened, unless its size was refused, and the
\* assert (672) fires only for files whose size does not fit into 32 bits; so nothing that others
\* wrote is lost.  A walk (638-658) lists nothing twice, and of a directory that it lists everything
\* that was there all the time, unless Windows refused a call in it; if none was refused, it lists
\* all that stayed there.
NoneChangesUnder ==
    \A p \in Process :
        LET c == calls[p]
        IN  /\ c.step \in {"opened", "sized", "positioned"} =>
                   c.path \in DOMAIN files /\ files[c.path] = c.seen
            /\ c.op = "read" /\ c.step = "done" /\ c.ok /\ c.missed = {} => c.data = c.seen
            /\ c.op = "read" /\ c.step = "asserted" => Len(c.seen) >= SizeLimit
            /\ c.step \in {"done", "asserted", "check", "open"} => \A h \in handles : h.by # p
            /\ c.op = "walk" => IsInjective(c.listed)
            /\ c.op = "walk" /\ c.step = "done" =>
                   /\ \A x \in stable[p] :
                          Parent(x) \in (ToSet(c.listed) \cup {Root}) \ c.missed => x \in ToSet(c.listed)
                   /\ c.missed = {} => stable[p] \subseteq ToSet(c.listed)

\* path.nt.ixx, lines 515-560: contents go only where a call that may replace or delete them says
\* so, whatever changed since it checked, and a file that is moved keeps them.
KeptUnlessAllowed ==
    [][\A f \in DOMAIN files :
           \/ f \in DOMAIN files' /\ files'[f] = files[f]
           \/ \E p \in Process :
                  LET c == calls[p]
                  IN  /\ c # calls'[p]
                      /\ \/ c.op \in {"write", "delete_file"} /\ f = c.path
                         \/ c.op \in {"copy", "move"} /\ f = c.dest /\ c.may
                         \/ c.op \in {"move", "rename"} /\ f = c.path /\ files'[c.dest] = files[f]]_vars
=============================================================================
