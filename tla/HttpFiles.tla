------------------------------ MODULE HttpFiles ------------------------------
(***************************************************************************)
(* Files served by httplib: the mount points of a server and the search of *)
(* handle_file_request.  A name in the file system is a text, a file or    *)
(* directory the sequence of names that leads to it from the root.         *)
(***************************************************************************)
EXTENDS HttpText

CONSTANTS
  Directories,  \* of the file system, the root <<>> among them
  Files,
  Unreadable,   \* files that cannot be opened and mapped
  Mounted       \* the calls of set_mount_point: a sequence of [at, dir]

\* A tree: what is not the root lies in a directory.
ASSUME FileSystemAssumption ==
  /\ <<>> \in Directories /\ Directories \cap Files = {} /\ Unreadable \subseteq Files
  /\ \A at \in Directories \cup Files :
       at \in Seq(Seq(Nat) \ {<<>>}) /\ (at # <<>> => Front(at) \in Directories)
ASSUME MountedAssumption == Mounted \in Seq([at : Seq(Bytes), dir : Seq(Bytes)])

IndexHtml == <<512>>   \* "index.html", one symbol
Missing == <<<<>>>>    \* no such file or directory

\* stat: the system follows a path name by name.
Walk(path) ==
  LET Step(at, p) ==
        IF at \notin Directories THEN Missing
        ELSE IF p = Here THEN at
        ELSE IF p = Up THEN IF at = <<>> THEN at ELSE Front(at)
        ELSE IF Append(at, p) \in Directories \cup Files THEN Append(at, p) ELSE Missing
  IN  FoldLeft(Step, <<>>, Components(path))

\* set_mount_point: refused unless it is a directory mounted at a path that
\* begins with '/', which is the default.
set_mount_point(base_dirs, mount_point, dir) ==
  LET mnt == IF mount_point = <<>> THEN <<Slash>> ELSE mount_point
  IN  IF Walk(dir) \in Directories /\ mnt[1] = Slash
      THEN Append(base_dirs, [at |-> mnt, dir |-> dir]) ELSE base_dirs

base_dirs_ ==
  FoldLeft(LAMBDA dirs, m : set_mount_point(dirs, m.at, m.dir), <<>>, Mounted)

\* The part of the path below the mount point, of which at least '/' is left.
SubPath(entry, path) ==
  <<Slash>> \o SubSeq(path, Len(entry.at) + 1, Len(path))

FilePath(entry, path) ==
  LET full == entry.dir \o SubPath(entry, path)
  IN  IF full[Len(full)] = Slash THEN full \o IndexHtml ELSE full

\* handle_file_request: the first mount point that is a prefix of the path and
\* has the file, even if that cannot be read.  A directory is answered with a
\* redirect, but set_redirect sets nothing for a location with a line end, and
\* the request counts as handled ("blank").
handle_file_request(path) ==
  LET hits == {i \in DOMAIN base_dirs_ :
                 /\ IsPrefix(base_dirs_[i].at, path)
                 /\ is_valid_path(SubPath(base_dirs_[i], path))
                 /\ Walk(FilePath(base_dirs_[i], path)) # Missing}
      first == CHOOSE i \in hits : \A k \in hits : i <= k
      found == Walk(FilePath(base_dirs_[first], path))
      location == SubPath(base_dirs_[first], path) \o <<Slash>>
  IN  IF hits = {} \/ found \in Unreadable THEN [answer |-> "none"]
      ELSE IF found \in Directories
        THEN IF ToSet(location) \cap {10, 13} # {} THEN [answer |-> "blank"]
             ELSE [answer |-> "redirect", entry |-> base_dirs_[first],
                   directory |-> found, location |-> location]
        ELSE [answer |-> "file", entry |-> base_dirs_[first], file |-> found]
=============================================================================
