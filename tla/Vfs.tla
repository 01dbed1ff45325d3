-------------------------------- MODULE Vfs --------------------------------
(***************************************************************************)
(* The virtual file system of lab8 (kern/fs/vfs): opening, creating and    *)
(* closing files, directories of processes, the boot file system, mounts,  *)
(* and the reference and open counts of the inodes all of them share.      *)
(*                                                                         *)
(* The kernel is not preempted.  Another process runs only where this one  *)
(* may sleep: at a down() and in the vop_ and fsop_ operations of a file   *)
(* system.  A step goes from one such place to the next; what is done      *)
(* under vdev_list_sem or the lock of a files_struct is one step.          *)
(*                                                                         *)
(* The file system (sfs) is external: it answers vop_ and fsop_ calls in   *)
(* any way inode.h and vfs.h allow.  So are the callers: a process has at  *)
(* most one file open.  Lookups of more than one name are left to sfs.     *)
(***************************************************************************)
EXTENDS Integers, FiniteSets, Functions

CONSTANTS
  Proc,      \* processes that make system calls
  Threads,   \* those of them that share one files_struct
  Disk,      \* mountable devices
  Char,      \* devices that are not (stdin, stdout)
  Name,      \* names of files, in the paths of the callers
  NULL,
  MaxLeaks   \* bound: opens with O_CREAT start while fewer references leaked

ASSUME VfsAssumption ==
  /\ Threads \subseteq Proc
  /\ Disk \cap Char = {}
  /\ Name \cap (Disk \cup Char) = {}
  /\ {"root", "node"} \cap (Name \cup Disk \cup Char) = {}
  /\ NULL \notin Name \cup Disk \cup Char
                  \cup (Disk \X (Name \cup Disk \cup Char \cup {"root"}))
                  \cup (Char \X {"node"})
  /\ {"cwd", "boot", ":"} \cap (Disk \cup Char) = {}
  /\ MaxLeaks \in Nat
  /\ IsFiniteSet(Proc) /\ IsFiniteSet(Char)

VARIABLES
  ref_count, open_count,
  on_disk,       \* the files that exist
  mounted,       \* the disks whose vdev has a fs
  bootfs_node,
  pwd,           \* for each files_struct
  file,          \* the inode a process has open
  call,          \* the system call a process is in
  halted         \* "no", or the assertion that failed

vars == <<ref_count, open_count, on_disk, mounted, bootfs_node, pwd, file, call, halted>>

\* The files_struct of a process.
filesp(p) == IF p \in Threads THEN "shared" ELSE p
Files == {filesp(p) : p \in Proc}

Root(d) == <<d, "root">>
DevNode(c) == <<c, "node">>
Dirs == {Root(d) : d \in Disk}
Regular == Disk \X (Name \cup Disk \cup Char)
Devices == {DevNode(c) : c \in Char}
Inode == Dirs \cup Regular \cup Devices

\* Where get_device starts: no device named, a leading slash, a leading colon,
\* or the name of a device.
Start == {"cwd", "boot", ":"} \cup Disk \cup Char
Subpath == Name \cup {NULL}

\* The open flags.  What O_EXCL alone and O_TRUNC beside O_CREAT add makes no
\* difference that these four do not make.
Flags == {{}, {"trunc"}, {"creat"}, {"creat", "excl"}}

Idle == [pc |-> "idle", op |-> "none", start |-> "cwd", sub |-> NULL,
         flags |-> {}, node |-> NULL]

TypeOK ==
  /\ ref_count \in [Inode -> Nat]
  /\ open_count \in [Inode -> Nat]
  /\ on_disk \in SUBSET Regular
  /\ mounted \in SUBSET Disk
  /\ bootfs_node \in Inode \cup {NULL}
  /\ pwd \in [Files -> Inode \cup {NULL}]
  /\ file \in [Proc -> Inode \cup {NULL}]
  /\ call \in [Proc ->
       [pc : {"idle", "lookup", "root", "sub", "found", "parent", "parent root",
              "create", "truncate", "drop", "get", "change"},
        op : {"none", "open", "chdir", "bootfs"},
        start : Start, sub : Subpath \cup Disk \cup Char, flags : Flags, node : Inode \cup {NULL}]]
  /\ halted \in {"no", "node not initialised", "no vop_reclaim"}
-----------------------------------------------------------------------------
(* Who holds a reference *)

\* The places that hold a reference: an entry of vdev_list, bootfs_node, the working
\* directory of a files_struct, an open file, a system call.
Holder ==
  ({"vdev"} \X Devices) \cup ({"boot"} \X {NULL}) \cup ({"pwd"} \X Files)
    \cup ({"file", "call"} \X Proc)

\* The inode each of them holds, or NULL.
HeldAt(h) ==
  CASE h[1] = "vdev" -> h[2]
    [] h[1] = "boot" -> bootfs_node
    [] h[1] = "pwd"  -> pwd[h[2]]
    [] h[1] = "file" -> file[h[2]]
    [] h[1] = "call" -> call[h[2]].node

Holders(n) == {h \in Holder : HeldAt(h) = n}

\* References nobody will ever give back.
Leaked(n) == ref_count[n] - Cardinality(Holders(n))

\* The processes that may still leak one.
Creating == {p \in Proc : "creat" \in call[p].flags}

Running == halted = "no"

\* Bound: a call that could leak one more reference does not start.
MayLeak ==
  SumFunction([n \in Inode |-> Leaked(n)]) + Cardinality(Creating) < MaxLeaks

-----------------------------------------------------------------------------
(* inode.c *)

Inc(counts, n) == [counts EXCEPT ![n] = @ + 1]

Dec(counts, n) == [counts EXCEPT ![n] = @ - 1]

\* The last reference to a device went: its inode_ops have no vop_reclaim.
HaltedAfter(refs) ==
  IF \E n \in Devices : refs[n] = 0 THEN "no vop_reclaim" ELSE halted

\* inode_ref_inc and inode_ref_dec have made of ref_count what refs says; an inode
\* at 0 is left to vop_reclaim.
Counts(refs) == ref_count' = refs /\ halted' = HaltedAfter(refs)

NoCounts == UNCHANGED <<ref_count, halted>>
-----------------------------------------------------------------------------
(* System calls *)

Begins(p) == Running /\ call[p].pc = "idle"
At(p, pc) == Running /\ call[p].pc = pc

Goes(p, c) == call' = [call EXCEPT ![p] = c]

\* The call has the inode it looked for; the path is not looked at again, and what
\* O_CREAT still asks for is that the file is emptied.
Finds(p, n, flags) ==
  Goes(p, [call[p] EXCEPT !.pc = "found", !.node = n, !.start = "cwd", !.sub = NULL,
                          !.flags = IF flags = {"creat"} THEN {"trunc"} ELSE flags])

Returns(p) == Goes(p, Idle)

UnchangedState == UNCHANGED <<open_count, on_disk, mounted, bootfs_node, pwd, file>>

\* vfs_open, up to get_device; flags that are refused at once change nothing.
Open(p) ==
  /\ Begins(p) /\ file[p] = NULL
  /\ \E start \in Start, sub \in Subpath, flags \in Flags :
       /\ "creat" \in flags => MayLeak
       /\ Goes(p, [Idle EXCEPT !.pc = "lookup", !.op = "open", !.start = start,
                               !.sub = sub, !.flags = flags])
  /\ NoCounts /\ UnchangedState

\* vfs_chdir of a path.
Chdir(p) ==
  /\ Begins(p)
  /\ \E start \in Start, sub \in Subpath :
       Goes(p, [Idle EXCEPT !.pc = "lookup", !.op = "chdir", !.start = start,
                            !.sub = sub])
  /\ NoCounts /\ UnchangedState

\* vfs_set_bootfs: of a device, which becomes the current directory first, or of
\* NULL.
SetBootfs(p) ==
  /\ Begins(p)
  /\ \/ \E d \in Disk \cup Char :
          Goes(p, [Idle EXCEPT !.pc = "lookup", !.op = "bootfs", !.start = d])
     \/ Goes(p, [Idle EXCEPT !.pc = "change"])
  /\ NoCounts /\ UnchangedState
-----------------------------------------------------------------------------
(* vfs_lookup and vfs_lookup_parent *)

cwd(p) == pwd[filesp(p)]

\* What get_device finds first, or NULL: vfs_get_curdir, vfs_get_bootfs, vfs_get_root.
Device(p) ==
  LET start == call[p].start
  IN  CASE start \in {"cwd", ":"} -> cwd(p)
        [] start = "boot" -> bootfs_node
        [] start \in mounted -> Root(start)
        [] start \in Disk \ mounted -> NULL
        [] OTHER -> DevNode(start)

\* No file system on the device, or no current directory or boot file system: -E_NOENT,
\* upon which O_CREAT looks up the parent and, as nobody runs in between, fails again.
GetDeviceFails(p) ==
  /\ At(p, "lookup") \/ At(p, "parent")
  /\ Device(p) = NULL
  /\ Returns(p)
  /\ NoCounts /\ UnchangedState

\* get_device has got n, for vfs_lookup_parent or for vfs_lookup.
Arrives(p, n, parent) ==
  IF ~ parent /\ call[p].sub = NULL
  THEN Finds(p, n, call[p].flags)
  ELSE Goes(p, [call[p] EXCEPT !.node = n, !.pc = IF parent THEN "create" ELSE "sub"])

\* With a leading colon the current directory is held while fsop_get_root runs.
GetDevice(p) ==
  /\ At(p, "lookup") \/ At(p, "parent")
  /\ Device(p) # NULL
  /\ Counts(Inc(ref_count, Device(p)))
  /\ IF call[p].start = ":"
     THEN Goes(p, [call[p] EXCEPT !.node = Device(p),
                     !.pc = IF call[p].pc = "parent" THEN "parent root" ELSE "root"])
     ELSE Arrives(p, Device(p), call[p].pc = "parent")
  /\ UnchangedState

\* fsop_get_root of the file system the current directory is in, which is let go.
GetRoot(p) ==
  /\ At(p, "root") \/ At(p, "parent root")
  /\ LET root == Root(call[p].node[1])
     IN  /\ Counts(Dec(Inc(ref_count, root), call[p].node))
         /\ Arrives(p, root, call[p].pc = "parent root")
  /\ UnchangedState

\* The file the path names, in the directory node.
Named(p) == <<call[p].node[1], call[p].sub>>

LookupFinds(p) ==
  /\ At(p, "sub") /\ Named(p) \in on_disk
  /\ Counts(Dec(Inc(ref_count, Named(p)), call[p].node))
  /\ Finds(p, Named(p), call[p].flags)
  /\ UnchangedState

\* What vfs_lookup_parent reads in the path: get_device has put a 0 over the colon
\* behind the name of a device, so that this is a file in the current directory.
PathLeft(c) ==
  IF c.start \in Disk \cup Char THEN [c EXCEPT !.start = "cwd", !.sub = c.start] ELSE c

\* vop_lookup finds nothing, or fails; dev_lookup always finds nothing.
LookupFails(p) ==
  /\ At(p, "sub")
  /\ Counts(Dec(ref_count, call[p].node))
  /\ \/ Returns(p)
     \/ /\ Named(p) \notin on_disk /\ "creat" \in call[p].flags
        /\ Goes(p, [PathLeft(call[p]) EXCEPT !.pc = "parent", !.node = NULL])
  /\ UnchangedState
-----------------------------------------------------------------------------
(* vfs_open, after the lookup *)

\* O_EXCL and the file exists: -E_EXISTS.  The reference of the lookup is kept.
Exists(p) ==
  /\ At(p, "found") /\ call[p].op = "open" /\ "excl" \in call[p].flags
  /\ Returns(p)
  /\ NoCounts /\ UnchangedState

\* vop_create, which hands back the inode with a reference.  The directory keeps
\* the one of vfs_lookup_parent.
Create(p) ==
  /\ At(p, "create") /\ call[p].sub # NULL
  /\ ~ ("excl" \in call[p].flags /\ Named(p) \in on_disk)
  /\ on_disk' = on_disk \cup {Named(p)}
  /\ Counts(Inc(ref_count, Named(p)))
  /\ Finds(p, Named(p), {"creat"})
  /\ UNCHANGED <<open_count, mounted, bootfs_node, pwd, file>>

\* If vop_create fails, perhaps because another process has made the file since,
\* nobody looks at ret, and node holds what the stack held: the model stops.
CreateFails(p) ==
  /\ At(p, "create")
  /\ halted' = "node not initialised"
  /\ UNCHANGED <<ref_count, call>> /\ UnchangedState

Opening(p) ==
  At(p, "found") /\ call[p].op = "open" /\ "excl" \notin call[p].flags

OpenFails(p) ==
  /\ Opening(p)
  /\ Counts(Dec(ref_count, call[p].node))
  /\ Returns(p)
  /\ UnchangedState

\* vop_open succeeds; dev_open refuses O_CREAT, O_TRUNC and O_EXCL.
Opened(p) ==
  /\ Opening(p)
  /\ call[p].node \in Devices => call[p].flags = {}
  /\ open_count' = Inc(open_count, call[p].node)
  /\ IF "trunc" \in call[p].flags
     THEN Goes(p, [call[p] EXCEPT !.pc = "truncate"]) /\ UNCHANGED file
     ELSE Returns(p) /\ file' = [file EXCEPT ![p] = call[p].node]
  /\ NoCounts /\ UNCHANGED <<on_disk, mounted, bootfs_node, pwd>>

\* If vop_truncate fails, vop_open_dec and vop_ref_dec follow as in vfs_close.
Truncate(p) ==
  /\ At(p, "truncate")
  /\ \/ /\ file' = [file EXCEPT ![p] = call[p].node]
        /\ Returns(p) /\ UNCHANGED open_count
     \/ /\ open_count' = Dec(open_count, call[p].node)
        /\ Goes(p, [Idle EXCEPT !.pc = "drop", !.node = call[p].node])
        /\ UNCHANGED file
  /\ NoCounts /\ UNCHANGED <<on_disk, mounted, bootfs_node, pwd>>
-----------------------------------------------------------------------------
(* vfs_close: the last close calls vop_close, which may sleep *)

Close(p) ==
  /\ Begins(p) /\ file[p] # NULL
  /\ open_count' = Dec(open_count, file[p])
  /\ file' = [file EXCEPT ![p] = NULL]
  /\ Goes(p, [Idle EXCEPT !.pc = "drop", !.node = file[p]])
  /\ NoCounts /\ UNCHANGED <<on_disk, mounted, bootfs_node, pwd>>

\* The end of vfs_close, of vfs_getcwd, and of vfs_open when vop_truncate fails.
Drop(p) ==
  /\ At(p, "drop")
  /\ Counts(Dec(ref_count, call[p].node))
  /\ Returns(p)
  /\ UnchangedState
-----------------------------------------------------------------------------
(* Directories and the boot file system *)

\* Mutant: the new directory gets no reference of its own.
Entered_NoInc(old, n) == IF old = NULL THEN ref_count ELSE Dec(ref_count, old)

\* vfs_set_curdir moves from old to n.
Entered(old, n) ==
  IF old = NULL THEN Inc(ref_count, n) ELSE Dec(Inc(ref_count, n), old)

\* The rest of vfs_chdir: vfs_set_curdir, and the reference of the lookup goes.
SetCurdir(p) ==
  /\ At(p, "found") /\ call[p].op \in {"chdir", "bootfs"} /\ call[p].node \in Dirs
  /\ LET n == call[p].node
     IN  IF cwd(p) # n
         THEN /\ pwd' = [pwd EXCEPT ![filesp(p)] = n]
              /\ Counts(Dec(Entered(cwd(p), n), n))
         ELSE UNCHANGED pwd /\ Counts(Dec(ref_count, n))
  /\ IF call[p].op = "bootfs" THEN Goes(p, [Idle EXCEPT !.pc = "get"]) ELSE Returns(p)
  /\ UNCHANGED <<open_count, on_disk, mounted, bootfs_node, file>>

\* vop_gettype fails, or tells that this is no directory.
SetCurdirFails(p) ==
  /\ At(p, "found") /\ call[p].op \in {"chdir", "bootfs"} /\ call[p].node # cwd(p)
  /\ Counts(Dec(ref_count, call[p].node))
  /\ Returns(p)
  /\ UnchangedState

\* vfs_set_curdir(NULL).
LeaveDir(p) ==
  /\ Begins(p) /\ cwd(p) # NULL
  /\ pwd' = [pwd EXCEPT ![filesp(p)] = NULL]
  /\ Counts(Dec(ref_count, cwd(p)))
  /\ UNCHANGED <<open_count, on_disk, mounted, bootfs_node, file, call>>

\* vfs_get_curdir, in vfs_set_bootfs and in vfs_getcwd.
GetCurdir(p, c) ==
  /\ cwd(p) # NULL
  /\ Counts(Inc(ref_count, cwd(p)))
  /\ Goes(p, [c EXCEPT !.node = cwd(p)])
  /\ UnchangedState

GetNewBootfs(p) == At(p, "get") /\ GetCurdir(p, [Idle EXCEPT !.pc = "change"])

\* Another process with the same files_struct has left the directory: -E_NOENT.
NoBootfs(p) ==
  /\ At(p, "get") /\ cwd(p) = NULL
  /\ Returns(p) /\ NoCounts /\ UnchangedState

Getcwd(p) == Begins(p) /\ GetCurdir(p, [Idle EXCEPT !.pc = "drop"])

\* Mutant: the old node keeps its reference.
DropOld_Kept(old) == ref_count

DropOld(old) == IF old = NULL THEN ref_count ELSE Dec(ref_count, old)

\* change_bootfs: the reference of the caller becomes that of bootfs_node.
ChangeBootfs(p) ==
  /\ At(p, "change")
  /\ bootfs_node' = call[p].node
  /\ Counts(DropOld(bootfs_node))
  /\ Returns(p)
  /\ UNCHANGED <<open_count, on_disk, mounted, pwd, file>>
-----------------------------------------------------------------------------
(* Mounting *)

\* fsop_unmount refuses while an inode of the file system is in memory.
Busy(d) == \E n \in Dirs \cup Regular : n[1] = d /\ ref_count[n] > 0

\* vfs_mount, of a disk that has no fs.
Mount(d) ==
  /\ Running /\ d \notin mounted
  /\ mounted' = mounted \cup {d}
  /\ NoCounts /\ UNCHANGED <<open_count, on_disk, bootfs_node, pwd, file, call>>

\* vfs_unmount of one disk, and vfs_unmount_all, which goes on when one fails.
Unmount(D) ==
  /\ Running /\ D # {} /\ D \subseteq mounted /\ \A d \in D : ~ Busy(d)
  /\ mounted' = mounted \ D
  /\ NoCounts /\ UNCHANGED <<open_count, on_disk, bootfs_node, pwd, file, call>>

Stopped == ~ Running /\ UNCHANGED vars
-----------------------------------------------------------------------------
\* After vfs_init and dev_init: the devices are in vdev_list with the reference
\* dev_create_inode gave them.
Init ==
  /\ ref_count = [n \in Inode |-> IF n \in Devices THEN 1 ELSE 0]
  /\ open_count = [n \in Inode |-> 0]
  /\ on_disk \in SUBSET (Disk \X Name)
  /\ mounted = {}
  /\ bootfs_node = NULL
  /\ pwd = [f \in Files |-> NULL]
  /\ file = [p \in Proc |-> NULL]
  /\ call = [p \in Proc |-> Idle]
  /\ halted = "no"

Lookup(p) ==
  GetDeviceFails(p) \/ GetDevice(p) \/ GetRoot(p) \/ LookupFinds(p) \/ LookupFails(p)
OpenStep(p) ==
  Exists(p) \/ Create(p) \/ CreateFails(p) \/ OpenFails(p) \/ Opened(p) \/ Truncate(p)
DirStep(p) ==
  SetCurdir(p) \/ SetCurdirFails(p) \/ LeaveDir(p) \/ GetNewBootfs(p) \/ NoBootfs(p)
    \/ Getcwd(p) \/ ChangeBootfs(p)

Next ==
  \/ \E p \in Proc :
       \/ Open(p) \/ Chdir(p) \/ SetBootfs(p) \/ Close(p) \/ Drop(p)
       \/ Lookup(p) \/ OpenStep(p) \/ DirStep(p)
  \/ \E d \in Disk : Mount(d)
  \/ \E D \in SUBSET Disk : Unmount(D)
  \/ Stopped

Spec == Init /\ [][Next]_vars
-----------------------------------------------------------------------------
(* Properties *)

\* The processes that hold node open: with a file, or on the way to one.
Openers(n) ==
  {p \in Proc : file[p] = n \/ (call[p].pc = "truncate" /\ call[p].node = n)}

\* Whatever processes do at once, an inode that is the working directory, the boot
\* directory, an open file or in the hands of a system call has a reference for
\* each of these, so vop_reclaim never takes it away under one of them; a device
\* never goes.  open_count counts the openers, so vop_close comes with the last
\* close, and inode_check's ref_count >= open_count holds at every vop_ call.  And
\* no file system is unmounted under an inode that is held.
RefsExact ==
  /\ TypeOK
  /\ \A n \in Inode :
       /\ ref_count[n] >= Cardinality(Holders(n))
       /\ open_count[n] = Cardinality(Openers(n))
       /\ ref_count[n] > 0 /\ n \notin Devices => n[1] \in mounted
       /\ ref_count[n] > 0 /\ n \in Regular => n \in on_disk
  /\ halted # "no vop_reclaim"

\* vfs_open leaks, on two paths and no other: a new file leaves a reference on its
\* directory, and O_CREAT with O_EXCL of a file that exists leaves one on the file.
\* Every other call, whether it fails or not, gives back what it took.
OnlyCreateLeaks ==
  [][\A n \in Inode :
       Leaked(n)' # Leaked(n) =>
         /\ Leaked(n)' = Leaked(n) + 1
         /\ \E p \in Proc :
              /\ call[p].op = "open" /\ "creat" \in call[p].flags
              /\ call[p].node = n /\ call'[p].node # n
              /\ n \in Dirs \/ "excl" \in call[p].flags]_vars

\* vfs_open makes the file its path names (vfsfile.c: "get/create inode for file with
\* filename path"), so every file has a name that was given it.
MakesWhatWasNamed == on_disk \subseteq Disk \X Name
=============================================================================
