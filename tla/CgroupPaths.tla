------------------------------ MODULE CgroupPaths ------------------------------
(***************************************************************************)
(* How the prestart hook finds the directory of a container's device       *)
(* cgroup: from /proc/<pid>/cgroup and /proc/<pid>/mountinfo, read line by *)
(* line.  A path is a sequence of names, the root is <<>>.                 *)
(*                                                                         *)
(* A line of the cgroup file names the controllers of a hierarchy          *)
(* ("devices", "" for the unified one, or others) and the process's group; *)
(* one of mountinfo gives the type of a file system, the directory of it   *)
(* that is mounted (prefix) and where.  A line with too few fields is      *)
(* malformed.                                                              *)
(***************************************************************************)
EXTENDS Naturals, Sequences
LOCAL INSTANCE SequencesExt

GroupLine(controllers, path) ==
  [whole |-> TRUE, controllers |-> controllers, path |-> path]
MountLine(type, prefix, mount) ==
  [whole |-> TRUE, type |-> type, prefix |-> prefix, mount |-> mount]
MalformedGroupLine == [GroupLine("", <<>>) EXCEPT !.whole = FALSE]
MalformedMountLine == [MountLine("", <<>>, <<>>) EXCEPT !.whole = FALSE]

Failed == [ok |-> FALSE]
Returns(first, second) == [ok |-> TRUE, first |-> first, second |-> second]

(* The whole file is read; the devices controller of v1 goes before the    *)
(* unified hierarchy, which a hybrid host has too.  0 is an error.         *)
CGroupVersion(lines) ==
  LET named == {lines[i].controllers : i \in DOMAIN lines}
  IN  IF \E i \in DOMAIN lines : ~lines[i].whole THEN 0
      ELSE IF "devices" \in named THEN 1
      ELSE IF "" \in named THEN 2
      ELSE 0

Controller(version) == IF version = 1 THEN "devices" ELSE ""

Relative(path) == path # <<>> /\ Head(path) = ".."

(* The mount of the controller: for v1 its directory is called devices.    *)
IsDeviceMount(version, line) ==
  IF version = 1
    THEN line.type = "cgroup" /\ line.mount # <<>> /\ Last(line.mount) = "devices"
    ELSE line.type = "cgroup2"

(* The first line that is malformed or that is the one looked for decides. *)
DeviceCGroupMountPath(version, lines) ==
  LET i == SelectInSeq(lines, LAMBDA l : ~l.whole \/ IsDeviceMount(version, l))
  IN  IF i = 0 \/ ~lines[i].whole \/ Relative(lines[i].prefix)
        THEN Failed
        ELSE Returns(lines[i].prefix, lines[i].mount)

TrimPrefix(path, prefix) ==
  IF IsPrefix(prefix, path) THEN SubSeq(path, Len(prefix) + 1, Len(path)) ELSE path

DeviceCGroupRootPath(version, lines, prefix) ==
  LET i == SelectInSeq(lines, LAMBDA l : ~l.whole \/ l.controllers = Controller(version))
  IN  IF i = 0 \/ ~lines[i].whole
        THEN Failed
        ELSE Returns(TrimPrefix(lines[i].path, prefix), <<>>)

(* handlePrestart: DeviceCGroupMountPath returns (prefix, mount point) and *)
(* its caller takes them for (mount point, prefix), so that the mount      *)
(* point is what is trimmed and what is put in front.                      *)
ContainerCgroupPath(proc) ==
  LET version       == CGroupVersion(proc.cgroup)
      mounted       == DeviceCGroupMountPath(version, proc.mountinfo)
      cgrpMountPath == mounted.first
      cgrpRootPrefix == mounted.second
      root          == DeviceCGroupRootPath(version, proc.cgroup, cgrpRootPrefix)
  IN  IF version = 0 THEN Failed
      ELSE IF ~mounted.ok THEN Failed
      ELSE IF ~root.ok THEN Failed
      ELSE Returns(cgrpRootPrefix \o root.first, <<>>)

(***************************************************************************)
(* The file system: below the mount point of a hierarchy stand the groups  *)
(* below the directory that is mounted.                                    *)
(***************************************************************************)
Group(proc) ==
  LET version == CGroupVersion(proc.cgroup)
      i == SelectInSeq(proc.cgroup, LAMBDA l : l.controllers = Controller(version))
  IN  proc.cgroup[i].path

GroupAt(proc, path) ==
  LET version == CGroupVersion(proc.cgroup)
      i == SelectInSeq(proc.mountinfo, LAMBDA l : IsDeviceMount(version, l))
      line == proc.mountinfo[i]
  IN  IF IsPrefix(line.mount, path)
        THEN line.prefix \o TrimPrefix(path, line.mount)
        ELSE <<"no group">>
==============================================================================
