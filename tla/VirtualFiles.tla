----------------------------- MODULE VirtualFiles -----------------------------
(***************************************************************************)
(* The file system that JavaScript sees: an overlay in memory over files   *)
(* of the host that it may read, with symbolic links, descriptors that     *)
(* know their file by its path, and the streams and handles that own       *)
(* descriptors.  A file's content and the position in it are left out.     *)
(* Source: src/e-agent-node-runtime/src/runtime.rs (node:fs).              *)
(***************************************************************************)
EXTENDS Naturals, Sequences, SequencesExt, FiniteSets, FiniteSetsExt, Functions

CONSTANTS
  Paths,           \* sequences of names, with the directories they are in
  Hosts,           \* what the host may have: files and directories among those paths
  MaxNodes,        \* bound: entries of the overlay
  MaxDescriptors   \* bound: descriptors, streams and handles opened

Root == <<>>
Parts == UNION {Range(p) : p \in Paths}   \* the names on the paths
Parent(p) == Front(p)

ASSUME FilesConstants ==
  /\ Paths \subseteq Seq(Parts)
  /\ Root \in Paths /\ \A p \in Paths \ {Root} : Parent(p) \in Paths
  /\ MaxNodes \in Nat /\ MaxDescriptors \in Nat
  /\ \A h \in Hosts : h.files \subseteq Paths /\ h.dirs \subseteq Paths \ h.files

VARIABLES
  hostTree,      \* what the host has: nothing here changes it
  files, dirs,   \* state.files, state.dirs: paths
  symlinks,      \* state.symlinks: path to target
  fds,           \* state.fds: the path, whether it writes, who opened it
  nextFd,
  owners,        \* the streams and handles, by number: their descriptor, closed or not
  opened,        \* history: the paths descriptors were opened for
  renamed        \* history: the paths something was renamed to

filesVars == <<hostTree, files, dirs, symlinks, fds, nextFd, owners, opened, renamed>>
treeVars == <<files, dirs, symlinks>>
fdVars == <<fds, nextFd, owners, opened>>

FilesInit ==
  /\ hostTree \in Hosts
  /\ files = {} /\ dirs = {Root} /\ symlinks = <<>>
  /\ fds = <<>> /\ nextFd = 0 /\ owners = <<>>
  /\ opened = {} /\ renamed = {}

Nobody == 0
Drop(f, S) == [x \in DOMAIN f \ S |-> f[x]]

UpTo(p, n) == SubSeq(p, 1, n)
Below(p) == {q \in files \union dirs \union DOMAIN symlinks : IsStrictPrefix(p, q)}

(***************************************************************************)
(* Resolution: the first component that is a link is replaced by its       *)
(* target, until there is none.  A loop has no resolution, nor have too    *)
(* many links on the way.                                                  *)
(***************************************************************************)
LinksOf(p) == {n \in 1..Len(p) : UpTo(p, n) \in DOMAIN symlinks}

LinkOf(p) == UpTo(p, Min(LinksOf(p)))
Followed(p) == symlinks[LinkOf(p)] \o SubSeq(p, Len(LinkOf(p)) + 1, Len(p))

MaxFollowed == 40

\* Of a path, and the links that were followed before.
Resolving[x \in Seq(Parts) \X SUBSET DOMAIN symlinks] ==
  IF LinksOf(x[1]) = {} THEN {x[1]}
  ELSE IF LinkOf(x[1]) \in x[2] \/ Cardinality(x[2]) >= MaxFollowed THEN {}
  ELSE Resolving[<<Followed(x[1]), x[2] \union {LinkOf(x[1])}>>]

Resolution == [p \in Paths |-> Resolving[<<p, {}>>] \intersect Paths]

IsDir(p) == p \in dirs \union hostTree.dirs

(***************************************************************************)
(* ensureDir makes the directories on the way one by one, until one of     *)
(* them is a file or a link; it then throws, and those made stay.          *)
(***************************************************************************)
InTheWay(p) == {n \in 1..Len(p) : UpTo(p, n) \in files \union DOMAIN symlinks}
EnsureDir(p) == dirs \union {UpTo(p, n) : n \in {k \in 0..Len(p) : \A m \in InTheWay(p) : k < m}}
IsEnsured(p) == InTheWay(p) = {}

MakeFile(p) ==
  /\ dirs' = EnsureDir(Parent(p))
  /\ files' = IF IsEnsured(Parent(p)) THEN files \union {p} ELSE files

(***************************************************************************)
(* Operations by path.  One that throws before it changes anything is no   *)
(* step.                                                                   *)
(***************************************************************************)
WriteFile(p) ==
  \E r \in Resolution[p] :
    /\ ~IsDir(r)
    /\ MakeFile(r)
    /\ UNCHANGED <<symlinks, fdVars, renamed>>

CopyFile(p, q) ==
  /\ Resolution[p] \intersect (files \union hostTree.files) # {}
  /\ WriteFile(q)

\* A directory that is there already is no error, nor is a link to nothing.
Mkdir(p) ==
  \E r \in Resolution[p] :
    /\ r \notin files
    /\ dirs' = EnsureDir(r)
    /\ UNCHANGED <<files, symlinks, fdVars, renamed>>

Symlink(target, p) ==
  /\ p # Root /\ Parent(p) \in dirs
  /\ p \notin files \union dirs \union DOMAIN symlinks
  /\ symlinks' = [q \in DOMAIN symlinks \union {p} |-> IF q = p THEN target ELSE symlinks[q]]
  /\ UNCHANGED <<files, dirs, fdVars, renamed>>

Unlink(p) ==
  /\ \/ /\ p \in DOMAIN symlinks
        /\ symlinks' = Drop(symlinks, {p})
        /\ UNCHANGED <<files, dirs>>
     \/ /\ p \in files \ DOMAIN symlinks
        /\ files' = files \ {p}
        /\ UNCHANGED <<dirs, symlinks>>
  /\ UNCHANGED <<fdVars, renamed>>

Rmdir(p) ==
  /\ p # Root /\ p \notin DOMAIN symlinks
  /\ Below(p) = {} /\ p \in dirs
  /\ dirs' = dirs \ {p}
  /\ UNCHANGED <<files, symlinks, fdVars, renamed>>

\* Mutant: the links in the directory stay.
RmTreeButLinks(p) ==
  /\ p \in dirs \ (files \union DOMAIN symlinks)
  /\ files' = files \ Below(p)
  /\ dirs' = (dirs \ ({p} \union Below(p))) \union {Root}
  /\ UNCHANGED <<symlinks, fdVars, renamed>>

\* rmSync with recursive; without it, it is Unlink or Rmdir, the file before the link.
RmTree(p) ==
  /\ p \in dirs \ (files \union DOMAIN symlinks)
  /\ files' = files \ Below(p)
  /\ dirs' = (dirs \ ({p} \union Below(p))) \union {Root}
  /\ symlinks' = Drop(symlinks, {p} \union Below(p))
  /\ UNCHANGED <<fdVars, renamed>>

RmFile(p) ==
  /\ p \in files
  /\ files' = files \ {p}
  /\ UNCHANGED <<dirs, symlinks, fdVars, renamed>>

\* A link or a file; whatever has the new name is not looked at, and a file renamed to
\* its own name is lost.
Rename(p, q) ==
  /\ p \in files \union DOMAIN symlinks /\ q # Root
  /\ dirs' = EnsureDir(Parent(q))
  /\ IF ~IsEnsured(Parent(q)) THEN UNCHANGED <<files, symlinks, renamed>>
     ELSE /\ renamed' = renamed \union {q}
          /\ IF p \in DOMAIN symlinks
             THEN /\ symlinks' = [x \in (DOMAIN symlinks \union {q}) \ {p} |->
                                    IF x = q THEN symlinks[p] ELSE symlinks[x]]
                  /\ UNCHANGED files
             ELSE /\ files' = (files \union {q}) \ {p}
                  /\ UNCHANGED symlinks
  /\ UNCHANGED fdVars

(***************************************************************************)
(* Descriptors.                                                            *)
(***************************************************************************)
OpenFlags == {"r", "r+", "w", "wx", "a"}
Writes(flags) == flags # "r"
Creates(flags) == flags \in {"w", "wx", "a"}

\* A file of the host is taken into the overlay when it is opened for writing; one that
\* cannot be read can still be truncated, and then goes without its directories.
OpenFile(p, flags, kind) ==
  \E r \in Resolution[p] :
    /\ nextFd < MaxDescriptors
    /\ ~IsDir(r)
    /\ r \in files \union hostTree.files \/ Creates(flags)
    /\ flags = "wx" => r \notin files \union hostTree.files
    /\ \/ /\ r \notin files /\ Writes(flags)
          /\ MakeFile(r)
       \/ /\ r \in files \/ ~Writes(flags)
          /\ UNCHANGED <<files, dirs>>
       \/ /\ r \in hostTree.files \ files /\ flags = "w"
          /\ files' = files \union {r}
          /\ UNCHANGED dirs
    /\ UNCHANGED <<symlinks, renamed>>
    /\ IF r \notin files' /\ Writes(flags) THEN UNCHANGED fdVars
       ELSE /\ nextFd' = nextFd + 1
            /\ opened' = opened \union {r}
            /\ owners' = IF kind = "plain" THEN owners
                         ELSE Append(owners, [kind |-> kind, fd |-> nextFd, closed |-> FALSE])
            /\ fds' = [d \in DOMAIN fds \union {nextFd} |->
                         IF d # nextFd THEN fds[d]
                         ELSE [path |-> r, writes |-> Writes(flags),
                               owner |-> IF kind = "plain" THEN Nobody ELSE Len(owners) + 1]]

\* What is written goes to the path, whatever became of it.
WriteThrough(fd) ==
  /\ fd \in DOMAIN fds /\ fds[fd].writes
  /\ files' = files \union {fds[fd].path}
  /\ UNCHANGED <<dirs, symlinks>>

\* writeSync and ftruncateSync.
WriteFd(fd) == WriteThrough(fd) /\ UNCHANGED <<fdVars, renamed>>

\* By its number any code can close any descriptor.
CloseFd(fd) ==
  /\ fd \in DOMAIN fds
  /\ fds' = Drop(fds, {fd})
  /\ UNCHANGED <<treeVars, nextFd, owners, opened, renamed>>

\* A stream or a handle looks whether its descriptor is still the one it opened.
HasItsOwn(i) == owners[i].fd \in DOMAIN fds /\ fds[owners[i].fd].owner = i
CloseOwned(i) ==
  /\ ~owners[i].closed
  /\ owners' = [owners EXCEPT ![i].closed = TRUE]
  /\ fds' = IF HasItsOwn(i) THEN Drop(fds, {owners[i].fd}) ELSE fds
  /\ UNCHANGED <<nextFd, opened, renamed>>

\* The end of a stream writes what it holds, which may be nothing, through the number.
EndStream(i) ==
  /\ owners[i].kind = "stream" /\ CloseOwned(i)
  /\ WriteThrough(owners[i].fd) \/ UNCHANGED treeVars

DestroyStream(i) ==
  /\ owners[i].kind = "stream" /\ CloseOwned(i)
  /\ UNCHANGED treeVars

WriteHandle(i) ==
  /\ owners[i].kind = "handle" /\ ~owners[i].closed /\ HasItsOwn(i)
  /\ WriteFd(owners[i].fd)

CloseHandle(i) ==
  /\ owners[i].kind = "handle" /\ HasItsOwn(i) /\ CloseOwned(i)
  /\ UNCHANGED treeVars

\* The runtime is scrubbed between programs; who has a stream or handle keeps it.
ResetFiles ==
  /\ files' = {} /\ dirs' = {Root} /\ symlinks' = <<>> /\ fds' = <<>>
  /\ UNCHANGED <<nextFd, owners, opened, renamed>>

\* appendFileSync and truncateSync open, write and close in a row; mkdtempSync makes a
\* directory of a new name.
FilesNext ==
  /\ \/ \E p \in Paths :
          \/ WriteFile(p) \/ Mkdir(p) \/ Unlink(p) \/ Rmdir(p) \/ RmTree(p) \/ RmFile(p)
          \/ \E q \in Paths : CopyFile(p, q) \/ Symlink(q, p) \/ Rename(p, q)
          \/ \E flags \in OpenFlags, kind \in {"plain", "stream", "handle"} : OpenFile(p, flags, kind)
     \/ \E fd \in DOMAIN fds : WriteFd(fd) \/ CloseFd(fd)
     \/ \E i \in DOMAIN owners :
          EndStream(i) \/ DestroyStream(i) \/ WriteHandle(i) \/ CloseHandle(i)
     \/ ResetFiles
  /\ UNCHANGED hostTree
  /\ Cardinality(files') + Cardinality(dirs') + Cardinality(DOMAIN symlinks') <= MaxNodes

FilesSpec == FilesInit /\ [][FilesNext]_filesVars

(***************************************************************************)
(* Properties.                                                             *)
(***************************************************************************)
FilesTypeOK ==
  /\ files \subseteq Paths /\ dirs \subseteq Paths /\ Root \in dirs
  /\ DOMAIN symlinks \subseteq Paths /\ Range(symlinks) \subseteq Paths
  /\ DOMAIN fds \subseteq 0..(nextFd - 1) /\ nextFd \in 0..MaxDescriptors

\* Whatever was made half way, removed, renamed or reset, a directory and a link are
\* in a directory, so that listing from the root finds them (ensureDir, rmSync).
EntriesAreReachable ==
  \A p \in (dirs \union DOMAIN symlinks) \ {Root} : Parent(p) \in dirs

\* A file outside any directory is one that a descriptor wrote after its directory was
\* removed, or that was opened where only the host has the directory (writeSync,
\* openSync).
OnlyDescriptorsStray == \A p \in files : Parent(p) \in dirs \/ p \in opened

\* A path is a file, a directory or a link, unless something was renamed to it or
\* written through a descriptor (renameSync, writeSync).
PathsHaveOneKind ==
  /\ files \intersect dirs \subseteq renamed \union opened
  /\ files \intersect DOMAIN symlinks \subseteq renamed \union opened
  /\ dirs \intersect DOMAIN symlinks \subseteq renamed

\* A stream or handle that outlived its descriptor, whoever closed it, never finds
\* another's under its number; when it has closed, its descriptor is gone
\* (createWriteStream, makeFileHandle, resetState).
DescriptorsAreOwned ==
  \A i \in DOMAIN owners :
    owners[i].fd \in DOMAIN fds => ~owners[i].closed /\ HasItsOwn(i)

FilesAreSound ==
  /\ FilesTypeOK
  /\ EntriesAreReachable
  /\ OnlyDescriptorsStray
  /\ PathsHaveOneKind
  /\ DescriptorsAreOwned
=============================================================================
