----------------------------- MODULE VfsProofs ------------------------------
(***************************************************************************)
(* Proofs about Vfs: whatever the processes do at once, and however the    *)
(* file system answers, an inode is referenced by everything that holds    *)
(* it.  The places that hold references are one function, Held; a system   *)
(* call moves references between them.  Kept says what must be true of     *)
(* counts and places together; four lemmas say that taking a reference,    *)
(* dropping, moving and forgetting one keeps it; every step of a call is   *)
(* then put together from these.  The second part looks at how far a count *)
(* is above its holders: two paths of vfs_open, and nothing else, widen    *)
(* it.                                                                     *)
(***************************************************************************)
EXTENDS Vfs, FiniteSetTheorems, TLAPS

\* What the places hold, as a function.
Held == [h \in Holder |-> HeldAt(h)]

\* The disk of the inode is mounted, and if it is a file it exists.
Good(n, M, D) ==
  /\ n \notin Devices => n[1] \in M
  /\ n \in Regular => n \in D

\* The places that hold n, when h says what they hold.
Holding(h, n) == {x \in Holder : h[x] = n}

\* Counts r that cover the references of the places h, with M mounted and D on disk.
Kept(r, h, M, D) ==
  /\ r \in [Inode -> Nat]
  /\ h \in [Holder -> Inode \cup {NULL}]
  /\ \A n \in Devices : h[<<"vdev", n>>] = n
  /\ \A n \in Inode :
       /\ r[n] >= Cardinality(Holding(h, n))
       /\ r[n] > 0 => Good(n, M, D)

\* A system call c of a process whose open file is f: what it has in hand where.
CallOK(c, f) ==
  /\ c.pc \in {"idle", "lookup", "parent", "get"} => c.node = NULL
  /\ c.pc \in {"sub", "found", "truncate", "drop"} => c.node \in Inode
  /\ c.pc \in {"create", "root", "parent root"} => c.node \in Dirs
  /\ c.pc = "change" => c.node \in Dirs \cup {NULL}
  /\ c.pc = "parent" => c.start \in {"cwd", "boot", ":"}
  /\ c.pc = "truncate" => c.op = "open"
  /\ c.op = "open" => f = NULL
  /\ c.pc \in {"parent", "parent root", "create"} => "creat" \in c.flags
  /\ "creat" \in c.flags => c.op = "open"

DirsOK ==
  /\ pwd \in [Files -> Dirs \cup {NULL}]
  /\ bootfs_node \in Dirs \cup {NULL}

OpensExact == \A n \in Inode : open_count[n] = Cardinality(Openers(n))

IInv ==
  /\ TypeOK
  /\ DirsOK
  /\ \A p \in Proc : CallOK(call[p], file[p])
  /\ Kept(ref_count, Held, mounted, on_disk)
  /\ OpensExact
  /\ halted # "no vop_reclaim"

\* The system calls, as TypeOK has them.
CallSet ==
  [pc : {"idle", "lookup", "root", "sub", "found", "parent", "parent root",
         "create", "truncate", "drop", "get", "change"},
   op : {"none", "open", "chdir", "bootfs"},
   start : Start, sub : Subpath \cup Disk \cup Char, flags : Flags, node : Inode \cup {NULL}]
-----------------------------------------------------------------------------
(* Counting *)

LEMMA HolderFinite == IsFiniteSet(Holder)
<1>1. IsFiniteSet(Files)
  <2>1. Files \in SUBSET (Proc \cup {"shared"})
    BY DEF Files, filesp
  <2>2. IsFiniteSet(Proc \cup {"shared"})
    BY VfsAssumption, FS_AddElement
  <2> QED BY <2>1, <2>2, FS_Subset
<1>2. IsFiniteSet(Devices)
  <2>1. Devices = Char \X {"node"}
    BY DEF Devices, DevNode
  <2>2. IsFiniteSet(Char) /\ IsFiniteSet({"node"})
    BY VfsAssumption, FS_Singleton
  <2> QED BY <2>1, <2>2, FS_Product
<1>3. /\ IsFiniteSet({"vdev"}) /\ IsFiniteSet({"boot"}) /\ IsFiniteSet({NULL})
      /\ IsFiniteSet({"pwd"}) /\ IsFiniteSet({"file"}) /\ IsFiniteSet({"call"})
  BY FS_Singleton
<1>4. IsFiniteSet({"file", "call"})
  <2>1. {"file", "call"} = {"file"} \cup {"call"}
    OBVIOUS
  <2>2. IsFiniteSet({"file"} \cup {"call"})
    BY <1>3, FS_AddElement
  <2> QED BY <2>1, <2>2
<1>5. /\ IsFiniteSet({"vdev"} \X Devices) /\ IsFiniteSet({"boot"} \X {NULL})
      /\ IsFiniteSet({"pwd"} \X Files) /\ IsFiniteSet({"file", "call"} \X Proc)
  BY <1>1, <1>2, <1>3, <1>4, VfsAssumption, FS_Product
<1> QED BY <1>5, FS_Union DEF Holder

\* NULL is no inode; a place is what it is.
LEMMA Distinct ==
  /\ NULL \notin Inode
  /\ Dirs \cap Devices = {} /\ Regular \cap Devices = {} /\ Dirs \cap Regular = {}
  /\ Dirs \subseteq Inode /\ Devices \subseteq Inode /\ Regular \subseteq Inode
BY VfsAssumption DEF Inode, Dirs, Devices, Regular, Root, DevNode

\* One place x goes from a to b: the places of a are fewer by one, those of b more.
LEMMA OneMoves ==
  ASSUME NEW h \in [Holder -> Inode \cup {NULL}], NEW x \in Holder,
         NEW n \in Inode,
         NEW g, \A y \in Holder \ {x} : g[y] = h[y]
  PROVE  /\ Cardinality(Holding(h, n)) \in Nat
         /\ Cardinality(Holding(g, n)) \in Nat
         /\ h[x] = n => Cardinality(Holding(h, n)) > 0
         /\ h[x] = n /\ g[x] # n =>
              Cardinality(Holding(g, n)) = Cardinality(Holding(h, n)) - 1
         /\ h[x] # n /\ g[x] = n =>
              Cardinality(Holding(g, n)) = Cardinality(Holding(h, n)) + 1
         /\ (h[x] = n <=> g[x] = n) =>
              Cardinality(Holding(g, n)) = Cardinality(Holding(h, n))
<1> DEFINE before == Holding(h, n)
           after == Holding(g, n)
<1>1. IsFiniteSet(before) /\ IsFiniteSet(after)
  BY HolderFinite, FS_Subset DEF Holding
<1>2. Cardinality(before) \in Nat /\ Cardinality(after) \in Nat
  BY <1>1, FS_CardinalityType
<1>3. CASE h[x] = n /\ g[x] = n
  <2>1. after = before /\ before # {}
    BY <1>3 DEF Holding
  <2>2. Cardinality(before) # 0
    BY <2>1, <1>1, FS_EmptySet
  <2> QED BY <1>2, <1>3, <2>1, <2>2
<1>4. CASE h[x] = n /\ g[x] # n
  <2>1. after = before \ {x} /\ x \in before
    BY <1>4 DEF Holding
  <2>2. Cardinality(after) = Cardinality(before) - 1
    BY <2>1, <1>1, FS_RemoveElement
  <2> QED BY <1>2, <1>4, <2>2
<1>5. CASE h[x] # n /\ g[x] = n
  <2>1. after = before \cup {x} /\ x \notin before
    BY <1>5 DEF Holding
  <2>2. Cardinality(after) = Cardinality(before) + 1
    BY <2>1, <1>1, FS_AddElement
  <2> QED BY <1>2, <1>5, <2>2
<1>6. CASE h[x] # n /\ g[x] # n
  <2>1. after = before
    BY <1>6 DEF Holding
  <2> QED BY <1>2, <1>6, <2>1
<1> QED BY <1>3, <1>4, <1>5, <1>6

\* What a place holds has a reference, and is good.
LEMMA HeldIsGood ==
  ASSUME NEW r, NEW h, NEW M, NEW D, Kept(r, h, M, D), NEW x \in Holder, h[x] \in Inode
  PROVE  r[h[x]] > 0 /\ Good(h[x], M, D)
<1>1. Cardinality(Holding(h, h[x])) > 0
  <2> DEFINE n == h[x]
  <2>1. h \in [Holder -> Inode \cup {NULL}] /\ n \in Inode
    BY DEF Kept
  <2> HIDE DEF n
  <2>2. h[x] = n
    BY DEF n
  <2>3. Cardinality(Holding(h, n)) > 0
    BY <2>1, <2>2, OneMoves
  <2> QED BY <2>3 DEF n
<1>2. /\ r[h[x]] \in Nat
      /\ r[h[x]] >= Cardinality(Holding(h, h[x]))
  BY DEF Kept
<1>3. Cardinality(Holding(h, h[x])) \in Nat
  BY HolderFinite, FS_Subset, FS_CardinalityType DEF Holding
<1>4. r[h[x]] > 0
  BY <1>1, <1>2, <1>3
<1> QED BY <1>4 DEF Kept
-----------------------------------------------------------------------------
(* Taking, dropping, moving and forgetting a reference *)

LEMMA KeptTakes ==
  ASSUME NEW r, NEW h, NEW M, NEW D, Kept(r, h, M, D), NEW x \in Holder, h[x] = NULL,
         NEW n \in Inode, Good(n, M, D)
  PROVE  Kept(Inc(r, n), [h EXCEPT ![x] = n], M, D)
<1> DEFINE g == [h EXCEPT ![x] = n]
           s == Inc(r, n)
<1>1. r \in [Inode -> Nat] /\ h \in [Holder -> Inode \cup {NULL}]
  BY DEF Kept
<1>2. s \in [Inode -> Nat] /\ g \in [Holder -> Inode \cup {NULL}]
  BY <1>1 DEF Inc
<1>3. ASSUME NEW d \in Devices PROVE g[<<"vdev", d>>] = d
  <2>1. h[<<"vdev", d>>] = d /\ d # NULL /\ <<"vdev", d>> \in Holder
    BY <1>3, Distinct DEF Kept, Holder
  <2> QED BY <2>1, <1>1
<1>4. ASSUME NEW m \in Inode
      PROVE  /\ s[m] >= Cardinality(Holding(g, m))
             /\ s[m] > 0 => Good(m, M, D)
  <2>1. /\ r[m] \in Nat /\ r[m] >= Cardinality(Holding(h, m))
        /\ r[m] > 0 => Good(m, M, D)
    BY <1>1, <1>4 DEF Kept
  <2>0. g[x] = n /\ \A y \in Holder \ {x} : g[y] = h[y]
    BY <1>1
  <2> HIDE DEF g
  <2>2. /\ Cardinality(Holding(h, m)) \in Nat
        /\ Cardinality(Holding(g, m)) \in Nat
        /\ h[x] = m /\ g[x] # m =>
             Cardinality(Holding(g, m)) = Cardinality(Holding(h, m)) - 1
        /\ h[x] # m /\ g[x] = m =>
             Cardinality(Holding(g, m)) = Cardinality(Holding(h, m)) + 1
        /\ (h[x] = m <=> g[x] = m) =>
             Cardinality(Holding(g, m)) = Cardinality(Holding(h, m))
    BY <1>1, <1>4, <2>0, OneMoves
  <2>3. h[x] # m
    BY <1>4, Distinct
  <2>4. s[m] = IF m = n THEN r[m] + 1 ELSE r[m]
    BY <1>1, <1>4 DEF Inc
  <2> HIDE DEF g, s
  <2> QED BY <2>0, <2>1, <2>2, <2>3, <2>4
<1> QED BY <1>2, <1>3, <1>4 DEF Kept

LEMMA KeptDrops ==
  ASSUME NEW r, NEW h, NEW M, NEW D, Kept(r, h, M, D), NEW x \in Holder, x[1] # "vdev",
         h[x] \in Inode
  PROVE  Kept(Dec(r, h[x]), [h EXCEPT ![x] = NULL], M, D)
<1> DEFINE n == h[x]
           g == [h EXCEPT ![x] = NULL]
           s == Dec(r, n)
<1>1. r \in [Inode -> Nat] /\ h \in [Holder -> Inode \cup {NULL}]
  BY DEF Kept
<1>2. r[n] \in Nat /\ r[n] > 0
  BY <1>1, HeldIsGood
<1>3. s \in [Inode -> Nat] /\ g \in [Holder -> Inode \cup {NULL}]
  BY <1>1, <1>2 DEF Dec
<1>4. ASSUME NEW d \in Devices PROVE g[<<"vdev", d>>] = d
  <2>1. h[<<"vdev", d>>] = d /\ <<"vdev", d>> \in Holder /\ x # <<"vdev", d>>
    BY <1>4 DEF Kept, Holder
  <2> QED BY <2>1, <1>1
<1>5. ASSUME NEW m \in Inode
      PROVE  /\ s[m] >= Cardinality(Holding(g, m))
             /\ s[m] > 0 => Good(m, M, D)
  <2>1. /\ r[m] \in Nat /\ r[m] >= Cardinality(Holding(h, m))
        /\ r[m] > 0 => Good(m, M, D)
    BY <1>1, <1>5 DEF Kept
  <2>0. g[x] = NULL /\ \A y \in Holder \ {x} : g[y] = h[y]
    BY <1>1
  <2> HIDE DEF g
  <2>2. /\ Cardinality(Holding(h, m)) \in Nat
        /\ Cardinality(Holding(g, m)) \in Nat
        /\ h[x] = m /\ g[x] # m =>
             Cardinality(Holding(g, m)) = Cardinality(Holding(h, m)) - 1
        /\ h[x] # m /\ g[x] = m =>
             Cardinality(Holding(g, m)) = Cardinality(Holding(h, m)) + 1
        /\ (h[x] = m <=> g[x] = m) =>
             Cardinality(Holding(g, m)) = Cardinality(Holding(h, m))
    BY <1>1, <1>5, <2>0, OneMoves
  <2>3. NULL # m
    BY <1>5, Distinct
  <2>4. s[m] = IF m = n THEN r[m] - 1 ELSE r[m]
    BY <1>1, <1>5 DEF Dec
  <2>5. h[x] = m <=> m = n
    OBVIOUS
  <2> HIDE DEF g, s, n
  <2> QED BY <2>0, <2>1, <2>2, <2>3, <2>4, <2>5
<1> QED BY <1>3, <1>4, <1>5 DEF Kept

\* A reference is leaked: the count stays.
LEMMA KeptForgets ==
  ASSUME NEW r, NEW h, NEW M, NEW D, Kept(r, h, M, D), NEW x \in Holder, x[1] # "vdev"
  PROVE  Kept(r, [h EXCEPT ![x] = NULL], M, D)
<1> DEFINE g == [h EXCEPT ![x] = NULL]
<1>1. r \in [Inode -> Nat] /\ h \in [Holder -> Inode \cup {NULL}]
  BY DEF Kept
<1>2. g \in [Holder -> Inode \cup {NULL}]
  BY <1>1
<1>3. ASSUME NEW d \in Devices PROVE g[<<"vdev", d>>] = d
  <2>1. h[<<"vdev", d>>] = d /\ <<"vdev", d>> \in Holder /\ x # <<"vdev", d>>
    BY <1>3 DEF Kept, Holder
  <2> QED BY <2>1, <1>1
<1>4. ASSUME NEW m \in Inode
      PROVE  r[m] >= Cardinality(Holding(g, m))
  <2>1. r[m] \in Nat /\ r[m] >= Cardinality(Holding(h, m))
    BY <1>1, <1>4 DEF Kept
  <2>0. g[x] = NULL /\ \A y \in Holder \ {x} : g[y] = h[y]
    BY <1>1
  <2> HIDE DEF g
  <2>2. /\ Cardinality(Holding(h, m)) \in Nat
        /\ Cardinality(Holding(g, m)) \in Nat
        /\ h[x] = m /\ g[x] # m =>
             Cardinality(Holding(g, m)) = Cardinality(Holding(h, m)) - 1
        /\ h[x] # m /\ g[x] = m =>
             Cardinality(Holding(g, m)) = Cardinality(Holding(h, m)) + 1
        /\ (h[x] = m <=> g[x] = m) =>
             Cardinality(Holding(g, m)) = Cardinality(Holding(h, m))
    BY <1>1, <1>4, <2>0, OneMoves
  <2>3. NULL # m
    BY <1>4, Distinct
  <2> HIDE DEF g
  <2> QED BY <2>0, <2>1, <2>2, <2>3
<1> QED BY <1>1, <1>2, <1>3, <1>4 DEF Kept

\* Counting up and down, in either order.
LEMMA BackAgain ==
  ASSUME NEW r \in [Inode -> Nat], NEW n \in Inode
  PROVE  Inc(Dec(r, n), n) = r
<1>1. r[n] \in Nat /\ (r[n] - 1) + 1 = r[n]
  OBVIOUS
<1>2. ASSUME NEW m \in Inode PROVE Inc(Dec(r, n), n)[m] = r[m]
  BY <1>1 DEF Inc, Dec
<1> QED BY <1>2 DEF Inc, Dec

LEMMA BothWays ==
  ASSUME NEW r \in [Inode -> Nat], NEW n \in Inode, NEW a \in Inode
  PROVE  Inc(Dec(r, a), n) = Dec(Inc(r, n), a)
<1>1. r[n] \in Nat /\ r[a] \in Nat
  OBVIOUS
<1>2. ASSUME NEW m \in Inode PROVE Inc(Dec(r, a), n)[m] = Dec(Inc(r, n), a)[m]
  BY <1>1 DEF Inc, Dec
<1> QED BY <1>2 DEF Inc, Dec

\* A place lets go of one inode and takes another.
LEMMA KeptMoves ==
  ASSUME NEW r, NEW h, NEW M, NEW D, Kept(r, h, M, D), NEW x \in Holder, x[1] # "vdev",
         h[x] \in Inode, NEW n \in Inode, Good(n, M, D)
  PROVE  Kept(Dec(Inc(r, n), h[x]), [h EXCEPT ![x] = n], M, D)
<1> DEFINE g == [h EXCEPT ![x] = NULL]
           s == Dec(r, h[x])
<1>1. r \in [Inode -> Nat] /\ h \in [Holder -> Inode \cup {NULL}]
  BY DEF Kept
<1>2. Kept(s, g, M, D) /\ g[x] = NULL
  BY <1>1, KeptDrops
<1>3. Kept(Inc(s, n), [g EXCEPT ![x] = n], M, D)
  <2> HIDE DEF g, s
  <2> QED BY <1>2, KeptTakes
<1>4. [g EXCEPT ![x] = n] = [h EXCEPT ![x] = n]
  BY <1>1
<1>5. Inc(s, n) = Dec(Inc(r, n), h[x])
  BY <1>1, BothWays
<1> QED BY <1>3, <1>4, <1>5

\* A reference goes from one place to another.
LEMMA KeptHands ==
  ASSUME NEW r, NEW h, NEW M, NEW D, Kept(r, h, M, D),
         NEW x \in Holder, x[1] # "vdev", h[x] \in Inode,
         NEW y \in Holder, x # y, h[y] = NULL
  PROVE  Kept(r, [h EXCEPT ![x] = NULL, ![y] = h[x]], M, D)
<1> DEFINE n == h[x]
           g == [h EXCEPT ![x] = NULL]
           s == Dec(r, n)
<1>1. r \in [Inode -> Nat] /\ h \in [Holder -> Inode \cup {NULL}]
  BY DEF Kept
<1>2. Kept(s, g, M, D) /\ g[y] = NULL
  BY <1>1, KeptDrops
<1>3. n \in Inode /\ Good(n, M, D)
  BY HeldIsGood
<1>4. Inc(s, n) = r
  BY <1>1, <1>3, BackAgain
<1>5. Kept(Inc(s, n), [g EXCEPT ![y] = n], M, D)
  <2> HIDE DEF g, s, n
  <2> QED BY <1>2, <1>3, KeptTakes
<1> QED BY <1>4, <1>5

\* More disks are mounted, more files made.
LEMMA KeptGrows ==
  ASSUME NEW r, NEW h, NEW M, NEW D, Kept(r, h, M, D),
         NEW M2, M \subseteq M2, NEW D2, D \subseteq D2
  PROVE  Kept(r, h, M2, D2)
BY DEF Kept, Good

\* The devices stay: inode_ref_dec never comes to call their vop_reclaim.
LEMMA KeptDevices ==
  ASSUME NEW r, NEW h, NEW M, NEW D, Kept(r, h, M, D)
  PROVE  HaltedAfter(r) = halted
<1>1. ASSUME NEW d \in Devices PROVE r[d] # 0
  <2>1. <<"vdev", d>> \in Holder /\ h[<<"vdev", d>>] = d /\ d \in Inode
    BY <1>1, Distinct DEF Kept, Holder
  <2>2. r[d] > 0
    BY <2>1, HeldIsGood
  <2> QED BY <2>2
<1> QED BY <1>1 DEF HaltedAfter
-----------------------------------------------------------------------------
(* The places *)

LEMMA Places ==
  /\ \A n \in Devices : <<"vdev", n>> \in Holder
  /\ <<"boot", NULL>> \in Holder
  /\ \A f \in Files : <<"pwd", f>> \in Holder
  /\ \A p \in Proc : <<"file", p>> \in Holder /\ <<"call", p>> \in Holder
BY DEF Holder

LEMMA HeldIs ==
  /\ \A n \in Devices : Held[<<"vdev", n>>] = n
  /\ Held[<<"boot", NULL>>] = bootfs_node
  /\ \A f \in Files : Held[<<"pwd", f>>] = pwd[f]
  /\ \A p \in Proc : Held[<<"file", p>>] = file[p] /\ Held[<<"call", p>>] = call[p].node
BY Places DEF Held, HeldAt

\* A function that says of every place what Held will say of it is Held'.
LEMMA HeldBecomes ==
  ASSUME NEW g, g = [x \in Holder |-> g[x]],
         \A n \in Devices : g[<<"vdev", n>>] = n,
         g[<<"boot", NULL>>] = bootfs_node',
         \A f \in Files : g[<<"pwd", f>>] = pwd'[f],
         \A p \in Proc : g[<<"file", p>>] = file'[p] /\ g[<<"call", p>>] = call'[p].node
  PROVE  Held' = g
<1>1. ASSUME NEW x \in Holder
      PROVE  g[x] = CASE x[1] = "vdev" -> x[2]
                      [] x[1] = "boot" -> bootfs_node'
                      [] x[1] = "pwd"  -> pwd'[x[2]]
                      [] x[1] = "file" -> file'[x[2]]
                      [] x[1] = "call" -> call'[x[2]].node
  <2>1. CASE x \in {"vdev"} \X Devices
    <3>1. PICK n \in Devices : x = <<"vdev", n>>
      BY <2>1
    <3> QED BY <3>1
  <2>2. CASE x \in {"boot"} \X {NULL}
    <3>1. x = <<"boot", NULL>>
      BY <2>2
    <3> QED BY <3>1
  <2>3. CASE x \in {"pwd"} \X Files
    <3>1. PICK f \in Files : x = <<"pwd", f>>
      BY <2>3
    <3> QED BY <3>1
  <2>4. CASE x \in {"file", "call"} \X Proc
    <3>1. PICK p \in Proc : x = <<"file", p>> \/ x = <<"call", p>>
      BY <2>4
    <3>2. CASE x = <<"file", p>>
      BY <3>2
    <3>3. CASE x = <<"call", p>>
      BY <3>3
    <3> QED BY <3>1, <3>2, <3>3
  <2> QED BY <2>1, <2>2, <2>3, <2>4 DEF Holder
<1> QED BY <1>1 DEF Held, HeldAt
-----------------------------------------------------------------------------
(* One step of a system call *)

\* What a step of p has to show for the invariant: g are the places after it.
LEMMA StepKeeps ==
  ASSUME IInv, NEW p \in Proc, NEW c \in CallSet, call' = [call EXCEPT ![p] = c],
         file' \in [Proc -> Inode \cup {NULL}],
         \A q \in Proc \ {p} : file'[q] = file[q],
         CallOK(c, file'[p]),
         pwd' \in [Files -> Dirs \cup {NULL}], bootfs_node' \in Dirs \cup {NULL},
         open_count' \in [Inode -> Nat], OpensExact',
         on_disk' \in SUBSET Regular, mounted' = mounted,
         halted' = halted \/ halted' = HaltedAfter(ref_count'),
         NEW g, Kept(ref_count', g, mounted, on_disk'),
         g[<<"boot", NULL>>] = bootfs_node',
         \A f \in Files : g[<<"pwd", f>>] = pwd'[f],
         \A q \in Proc : g[<<"file", q>>] = file'[q] /\ g[<<"call", q>>] = call'[q].node
  PROVE  IInv'
<1>1. halted' = halted
  BY KeptDevices
<1>2. call' \in [Proc -> CallSet]
  BY DEF IInv, TypeOK, CallSet
<1>3. pwd' \in [Files -> Inode \cup {NULL}] /\ bootfs_node' \in Inode \cup {NULL}
  BY Distinct
<1>4. ref_count' \in [Inode -> Nat]
  BY DEF Kept
<1>5. TypeOK'
  BY <1>1, <1>2, <1>3, <1>4 DEF IInv, TypeOK, CallSet
<1>6. \A q \in Proc : CallOK(call[q], file[q])'
  <2> TAKE q \in Proc
  <2>1. CASE q = p
    <3>1. call'[q] = c
      BY <2>1 DEF IInv, TypeOK
    <3> QED BY <3>1, <2>1 DEF CallOK
  <2>2. CASE q # p
    <3>1. call'[q] = call[q] /\ file'[q] = file[q] /\ CallOK(call[q], file[q])
      BY <2>2 DEF IInv, TypeOK
    <3> QED BY <3>1 DEF CallOK
  <2> QED BY <2>1, <2>2
<1>7. Held' = g
  <2>1. g = [x \in Holder |-> g[x]] /\ \A n \in Devices : g[<<"vdev", n>>] = n
    BY DEF Kept
  <2> QED BY <2>1, HeldBecomes
<1>8. Kept(ref_count, Held, mounted, on_disk)'
  <2>1. Kept(ref_count', Held', mounted', on_disk')
    BY <1>7
  <2> QED BY <2>1 DEF Kept, Good
<1> QED BY <1>1, <1>5, <1>6, <1>8 DEF IInv, DirsOK

\* Steps that change only what the call has in hand.
LEMMA CallKeeps ==
  ASSUME IInv, NEW p \in Proc, NEW c \in CallSet, call' = [call EXCEPT ![p] = c],
         UnchangedState, CallOK(c, file[p]),
         call[p].pc # "truncate", c.pc # "truncate",
         halted' = halted \/ halted' = HaltedAfter(ref_count'),
         Kept(ref_count', [Held EXCEPT ![<<"call", p>>] = c.node], mounted, on_disk)
  PROVE  IInv'
<1> DEFINE g == [Held EXCEPT ![<<"call", p>>] = c.node]
<1>1. /\ call \in [Proc -> CallSet] /\ file \in [Proc -> Inode \cup {NULL}]
      /\ open_count \in [Inode -> Nat] /\ on_disk \in SUBSET Regular
      /\ DirsOK /\ OpensExact
  BY DEF IInv, TypeOK, CallSet
<1>2. OpensExact'
  <2>1. ASSUME NEW n \in Inode PROVE Openers(n)' = Openers(n)
    BY <1>1 DEF Openers, UnchangedState
  <2> QED BY <2>1, <1>1 DEF OpensExact, UnchangedState
<1>3. Held \in [Holder -> Inode \cup {NULL}]
  BY DEF IInv, Kept
<1>4. /\ g[<<"boot", NULL>>] = bootfs_node'
      /\ \A f \in Files : g[<<"pwd", f>>] = pwd'[f]
      /\ \A q \in Proc : g[<<"file", q>>] = file'[q] /\ g[<<"call", q>>] = call'[q].node
  BY <1>1, <1>3, HeldIs, Places DEF UnchangedState
<1> HIDE DEF g
<1>5. Kept(ref_count', g, mounted, on_disk')
  BY DEF g, UnchangedState
<1> QED BY <1>1, <1>2, <1>4, <1>5, StepKeeps DEF UnchangedState, DirsOK
-----------------------------------------------------------------------------
(* The steps *)

LEMMA IdleIsCall ==
  /\ Idle \in CallSet /\ Idle.pc = "idle" /\ Idle.op = "none" /\ Idle.node = NULL
  /\ Idle.flags = {}
BY DEF Idle, CallSet, Start, Subpath, Flags

\* What the invariant says of one process.
LEMMA OfProcess ==
  ASSUME IInv, NEW p \in Proc
  PROVE  /\ call[p] \in CallSet /\ CallOK(call[p], file[p])
         /\ file[p] \in Inode \cup {NULL}
         /\ cwd(p) \in Dirs \cup {NULL}
         /\ filesp(p) \in Files
         /\ <<"call", p>> \in Holder /\ <<"call", p>>[1] # "vdev"
         /\ Held[<<"call", p>>] = call[p].node
         /\ Held \in [Holder -> Inode \cup {NULL}]
         /\ Kept(ref_count, Held, mounted, on_disk)
<1>1. filesp(p) \in Files
  BY DEF Files
<1>2. cwd(p) \in Dirs \cup {NULL}
  BY <1>1 DEF IInv, DirsOK, cwd
<1>3. Held \in [Holder -> Inode \cup {NULL}]
  BY DEF IInv, Kept
<1>4. call[p] \in CallSet /\ file[p] \in Inode \cup {NULL}
  BY DEF IInv, TypeOK, CallSet
<1> QED BY <1>1, <1>2, <1>3, <1>4, Places, HeldIs DEF IInv

\* A call that has nothing in hand, before and after.
LEMMA EmptyHanded ==
  ASSUME IInv, NEW p \in Proc, NEW c \in CallSet, Goes(p, c), UnchangedState, NoCounts,
         call[p].pc # "truncate", c.pc # "truncate",
         call[p].node = NULL, c.node = NULL, CallOK(c, file[p])
  PROVE  IInv'
<1>1. [Held EXCEPT ![<<"call", p>>] = c.node] = Held
  BY OfProcess
<1>2. Kept(ref_count', Held, mounted, on_disk)
  BY OfProcess DEF NoCounts
<1> QED BY <1>1, <1>2, CallKeeps DEF Goes, NoCounts

\* A call takes a reference on n.
LEMMA TakesOne ==
  ASSUME IInv, NEW p \in Proc, NEW c \in CallSet, Goes(p, c), UnchangedState,
         NEW n \in Inode, Good(n, mounted, on_disk), Counts(Inc(ref_count, n)),
         call[p].pc # "truncate", c.pc # "truncate",
         call[p].node = NULL, c.node = n, CallOK(c, file[p])
  PROVE  IInv'
<1>1. Kept(Inc(ref_count, n), [Held EXCEPT ![<<"call", p>>] = n], mounted, on_disk)
  BY OfProcess, KeptTakes
<1> QED BY <1>1, CallKeeps DEF Goes, Counts

\* A call gives back what it has, and ends or goes on.
LEMMA DropsOne ==
  ASSUME IInv, NEW p \in Proc, NEW c \in CallSet, Goes(p, c), UnchangedState,
         call[p].node \in Inode, Counts(Dec(ref_count, call[p].node)),
         call[p].pc # "truncate", c.pc # "truncate",
         c.node = NULL, CallOK(c, file[p])
  PROVE  IInv'
<1>1. Kept(Dec(ref_count, call[p].node), [Held EXCEPT ![<<"call", p>>] = NULL], mounted, on_disk)
  BY OfProcess, KeptDrops
<1> QED BY <1>1, CallKeeps DEF Goes, Counts

\* Idle is right for every process.
LEMMA IdleOK == \A f : CallOK(Idle, f)
BY IdleIsCall DEF CallOK

LEMMA OpenKeeps ==
  ASSUME IInv, NEW p \in Proc, Open(p)
  PROVE  IInv'
<1>1. PICK start \in Start, sub \in Subpath, flags \in Flags :
        Goes(p, [Idle EXCEPT !.pc = "lookup", !.op = "open", !.start = start,
                             !.sub = sub, !.flags = flags])
  BY DEF Open
<1> DEFINE c == [Idle EXCEPT !.pc = "lookup", !.op = "open", !.start = start,
                             !.sub = sub, !.flags = flags]
<1>2. c \in CallSet /\ c.pc = "lookup" /\ c.op = "open" /\ c.node = NULL
  BY IdleIsCall DEF CallSet
<1>3. file[p] = NULL /\ call[p].pc = "idle" /\ NoCounts /\ UnchangedState
  BY DEF Open, Begins
<1>4. call[p].node = NULL
  BY <1>3, OfProcess DEF CallOK
<1> HIDE DEF c
<1>5. CallOK(c, file[p])
  BY <1>2, <1>3 DEF CallOK
<1>6. Goes(p, c)
  BY <1>1 DEF c
<1> QED BY <1>2, <1>3, <1>4, <1>5, <1>6, EmptyHanded

LEMMA ChdirKeeps ==
  ASSUME IInv, NEW p \in Proc, Chdir(p)
  PROVE  IInv'
<1>1. PICK start \in Start, sub \in Subpath :
        Goes(p, [Idle EXCEPT !.pc = "lookup", !.op = "chdir", !.start = start, !.sub = sub])
  BY DEF Chdir
<1> DEFINE c == [Idle EXCEPT !.pc = "lookup", !.op = "chdir", !.start = start, !.sub = sub]
<1>2. c \in CallSet /\ c.pc = "lookup" /\ c.op = "chdir" /\ c.node = NULL /\ c.flags = {}
  BY IdleIsCall DEF CallSet
<1>3. call[p].pc = "idle" /\ NoCounts /\ UnchangedState
  BY DEF Chdir, Begins
<1>4. call[p].node = NULL
  BY <1>3, OfProcess DEF CallOK
<1> HIDE DEF c
<1>5. CallOK(c, file[p])
  BY <1>2 DEF CallOK
<1>6. Goes(p, c)
  BY <1>1 DEF c
<1> QED BY <1>2, <1>3, <1>4, <1>5, <1>6, EmptyHanded

LEMMA SetBootfsKeeps ==
  ASSUME IInv, NEW p \in Proc, SetBootfs(p)
  PROVE  IInv'
<1>1. call[p].pc = "idle" /\ NoCounts /\ UnchangedState
  BY DEF SetBootfs, Begins
<1>2. call[p].node = NULL
  BY <1>1, OfProcess DEF CallOK
<1>3. ASSUME NEW d \in Disk \cup Char,
             Goes(p, [Idle EXCEPT !.pc = "lookup", !.op = "bootfs", !.start = d])
      PROVE  IInv'
  <2> DEFINE c == [Idle EXCEPT !.pc = "lookup", !.op = "bootfs", !.start = d]
  <2>1. c \in CallSet /\ c.pc = "lookup" /\ c.op = "bootfs" /\ c.node = NULL /\ c.flags = {}
    BY IdleIsCall DEF CallSet, Start
  <2> HIDE DEF c
  <2>2. CallOK(c, file[p])
    BY <2>1 DEF CallOK
  <2>3. Goes(p, c)
    BY <1>3 DEF c
  <2> QED BY <1>1, <1>2, <2>1, <2>2, <2>3, EmptyHanded
<1>4. ASSUME Goes(p, [Idle EXCEPT !.pc = "change"])
      PROVE  IInv'
  <2> DEFINE c == [Idle EXCEPT !.pc = "change"]
  <2>1. c \in CallSet /\ c.pc = "change" /\ c.op = "none" /\ c.node = NULL /\ c.flags = {}
    BY IdleIsCall DEF CallSet
  <2> HIDE DEF c
  <2>2. CallOK(c, file[p])
    BY <2>1 DEF CallOK
  <2>3. Goes(p, c)
    BY <1>4 DEF c
  <2> QED BY <1>1, <1>2, <2>1, <2>2, <2>3, EmptyHanded
<1> QED BY <1>3, <1>4 DEF SetBootfs

\* What get_device finds first may be referenced; without a device named, it is a
\* directory.
LEMMA DeviceIsGood ==
  ASSUME IInv, NEW p \in Proc, Device(p) # NULL
  PROVE  /\ Device(p) \in Inode /\ Good(Device(p), mounted, on_disk)
         /\ call[p].start \in {"cwd", "boot", ":"} => Device(p) \in Dirs
<1> DEFINE s == call[p].start
<1>1. s \in Start /\ mounted \subseteq Disk
  BY OfProcess DEF CallSet, IInv, TypeOK
<1>2. /\ cwd(p) \in Dirs \cup {NULL} /\ bootfs_node \in Dirs \cup {NULL}
      /\ Held[<<"pwd", filesp(p)>>] = cwd(p) /\ <<"pwd", filesp(p)>> \in Holder
      /\ Held[<<"boot", NULL>>] = bootfs_node /\ <<"boot", NULL>> \in Holder
      /\ Kept(ref_count, Held, mounted, on_disk)
  BY OfProcess, HeldIs, Places DEF IInv, DirsOK, cwd
<1>3. CASE s \in {"cwd", ":"}
  <2>1. Device(p) = cwd(p)
    BY <1>3, VfsAssumption, <1>1 DEF Device
  <2> QED BY <2>1, <1>2, HeldIsGood, Distinct
<1>4. CASE s = "boot"
  <2>1. Device(p) = bootfs_node
    BY <1>4, VfsAssumption, <1>1 DEF Device
  <2> QED BY <2>1, <1>2, HeldIsGood, Distinct
<1>6. CASE s \in mounted
  <2>1. Device(p) = Root(s) /\ s \in Disk
    BY <1>6, VfsAssumption, <1>1 DEF Device
  <2>2. Root(s) \in Dirs /\ Root(s)[1] = s
    BY <2>1 DEF Dirs, Root
  <2> QED BY <2>1, <2>2, <1>6, Distinct DEF Good
<1>7. CASE s \in Char
  <2>1. Device(p) = DevNode(s)
    BY <1>7, VfsAssumption, <1>1 DEF Device
  <2>2. DevNode(s) \in Devices
    BY <1>7 DEF Devices
  <2> QED BY <2>1, <2>2, <1>7, VfsAssumption, Distinct DEF Good
<1>8. CASE s \in Disk \ mounted
  <2>1. Device(p) = NULL
    BY <1>8, VfsAssumption, <1>1 DEF Device
  <2> QED BY <2>1
<1> QED BY <1>1, <1>3, <1>4, <1>6, <1>7, <1>8 DEF Start

LEMMA GetDeviceFailsKeeps ==
  ASSUME IInv, NEW p \in Proc, GetDeviceFails(p)
  PROVE  IInv'
<1>1. /\ call[p].pc \in {"lookup", "parent"} /\ Goes(p, Idle)
      /\ NoCounts /\ UnchangedState
  BY DEF GetDeviceFails, At, Returns
<1>2. call[p].node = NULL
  BY <1>1, OfProcess DEF CallOK
<1> QED BY <1>1, <1>2, IdleIsCall, IdleOK, EmptyHanded

\* The next state of a call that has found n.
LEMMA FoundIsCall ==
  ASSUME IInv, NEW p \in Proc, NEW n \in Inode, NEW flags \in Flags, Finds(p, n, flags),
         "creat" \in flags => call[p].op = "open"
  PROVE  \E c \in CallSet :
           Goes(p, c) /\ c.pc = "found" /\ c.node = n /\ CallOK(c, file[p])
<1> DEFINE c == [call[p] EXCEPT !.pc = "found", !.node = n, !.start = "cwd", !.sub = NULL,
                                !.flags = IF flags = {"creat"} THEN {"trunc"} ELSE flags]
<1>1. call[p] \in CallSet /\ CallOK(call[p], file[p])
  BY OfProcess
<1>2. (IF flags = {"creat"} THEN {"trunc"} ELSE flags) \in Flags
  BY DEF Flags
<1>3. /\ c \in CallSet /\ c.pc = "found" /\ c.node = n /\ c.op = call[p].op
      /\ "creat" \in c.flags => "creat" \in flags
  BY <1>1, <1>2 DEF CallSet, Start, Subpath
<1>4. Goes(p, c)
  BY DEF Finds
<1> HIDE DEF c
<1>5. CallOK(c, file[p])
  BY <1>1, <1>3 DEF CallOK
<1> QED BY <1>3, <1>4, <1>5

\* The next state of a call for which get_device has got n.
LEMMA ArrivedIsCall ==
  ASSUME IInv, NEW p \in Proc, NEW n \in Inode, NEW parent \in BOOLEAN,
         Arrives(p, n, parent), parent => n \in Dirs /\ "creat" \in call[p].flags
  PROVE  \E c \in CallSet :
           Goes(p, c) /\ c.pc # "truncate" /\ c.node = n /\ CallOK(c, file[p])
<1>1. call[p] \in CallSet /\ CallOK(call[p], file[p]) /\ call[p].flags \in Flags
  BY OfProcess DEF CallSet
<1>2. CASE Finds(p, n, call[p].flags)
  <2>1. \E c \in CallSet :
          Goes(p, c) /\ c.pc = "found" /\ c.node = n /\ CallOK(c, file[p])
    BY <1>1, <1>2, FoundIsCall DEF CallOK
  <2> QED BY <2>1
<1>3. ASSUME NEW pc \in {"create", "sub"}, pc = "create" => parent,
             Goes(p, [call[p] EXCEPT !.node = n, !.pc = pc])
      PROVE  \E c \in CallSet :
               Goes(p, c) /\ c.pc # "truncate" /\ c.node = n /\ CallOK(c, file[p])
  <2> DEFINE c == [call[p] EXCEPT !.node = n, !.pc = pc]
  <2>1. /\ c \in CallSet /\ c.pc = pc /\ c.node = n /\ c.op = call[p].op
        /\ c.flags = call[p].flags
    BY <1>1 DEF CallSet
  <2>2. Goes(p, c)
    BY <1>3
  <2> HIDE DEF c
  <2>3. CallOK(c, file[p])
    BY <2>1, <1>1, <1>3 DEF CallOK
  <2> QED BY <2>1, <2>2, <2>3
<1> QED BY <1>2, <1>3 DEF Arrives

\* The next state of a call that holds the current directory while the root is got.
LEMMA RootIsCall ==
  ASSUME IInv, NEW p \in Proc, NEW n \in Dirs, NEW pc \in {"root", "parent root"},
         pc = "parent root" => call[p].pc = "parent",
         Goes(p, [call[p] EXCEPT !.node = n, !.pc = pc])
  PROVE  \E c \in CallSet :
           Goes(p, c) /\ c.pc # "truncate" /\ c.node = n /\ CallOK(c, file[p])
<1> DEFINE c == [call[p] EXCEPT !.node = n, !.pc = pc]
<1>1. call[p] \in CallSet /\ CallOK(call[p], file[p]) /\ n \in Inode
  BY OfProcess, Distinct
<1>2. /\ c \in CallSet /\ c.pc = pc /\ c.node = n /\ c.op = call[p].op
      /\ c.flags = call[p].flags
  BY <1>1 DEF CallSet
<1>3. Goes(p, c)
  OBVIOUS
<1> HIDE DEF c
<1>4. CallOK(c, file[p])
  BY <1>1, <1>2 DEF CallOK
<1> QED BY <1>2, <1>3, <1>4

\* Where get_device goes on with what it has found first.
LEMMA GetDeviceIsCall ==
  ASSUME IInv, NEW p \in Proc, GetDevice(p)
  PROVE  \E c \in CallSet :
           Goes(p, c) /\ c.pc # "truncate" /\ c.node = Device(p) /\ CallOK(c, file[p])
<1>1. PICK n : n = Device(p)
  OBVIOUS
<1>2. /\ n \in Inode /\ call[p].pc \in {"lookup", "parent"}
      /\ call[p].start \in {"cwd", "boot", ":"} => n \in Dirs
  BY <1>1, DeviceIsGood DEF GetDevice, At
<1>3. CallOK(call[p], file[p])
  BY OfProcess
<1>4. CASE call[p].start = ":"
  <2>1. n \in Dirs
    BY <1>2, <1>4
  <2>2. Goes(p, [call[p] EXCEPT !.node = n,
                   !.pc = IF call[p].pc = "parent" THEN "parent root" ELSE "root"])
    BY <1>1, <1>4 DEF GetDevice
  <2>3. CASE call[p].pc = "parent"
    BY <1>1, <2>1, <2>2, <2>3, RootIsCall
  <2>4. CASE call[p].pc # "parent"
    BY <1>1, <2>1, <2>2, <2>4, RootIsCall
  <2> QED BY <2>3, <2>4
<1>5. CASE call[p].start # ":"
  <2>1. Arrives(p, n, call[p].pc = "parent")
    BY <1>1, <1>5 DEF GetDevice
  <2>2. call[p].pc = "parent" => n \in Dirs /\ "creat" \in call[p].flags
    BY <1>2, <1>3 DEF CallOK
  <2> QED BY <1>1, <1>2, <2>1, <2>2, ArrivedIsCall
<1> QED BY <1>4, <1>5

LEMMA GetDeviceKeeps ==
  ASSUME IInv, NEW p \in Proc, GetDevice(p)
  PROVE  IInv'
<1>1. PICK n : n = Device(p)
  OBVIOUS
<1>2. /\ call[p].pc \in {"lookup", "parent"} /\ n # NULL
      /\ Counts(Inc(ref_count, n)) /\ UnchangedState
  BY <1>1 DEF GetDevice, At
<1>3. n \in Inode /\ Good(n, mounted, on_disk)
  BY <1>1, <1>2, DeviceIsGood
<1>4. call[p].node = NULL
  BY <1>2, OfProcess DEF CallOK
<1>5. PICK c \in CallSet :
        Goes(p, c) /\ c.pc # "truncate" /\ c.node = n /\ CallOK(c, file[p])
  BY <1>1, GetDeviceIsCall
<1> QED BY <1>2, <1>3, <1>4, <1>5, TakesOne

\* fsop_get_root gives the root of the disk the directory is on: as there are no
\* directories below it, the same one.
LEMMA RootIsGood ==
  ASSUME IInv, NEW p \in Proc, GetRoot(p)
  PROVE  \E n \in Dirs :
           /\ n = call[p].node /\ Good(n, mounted, on_disk)
           /\ Counts(Dec(Inc(ref_count, n), n)) /\ UnchangedState
           /\ call[p].pc \in {"root", "parent root"}
           /\ Arrives(p, n, call[p].pc = "parent root")
           /\ call[p].pc = "parent root" => "creat" \in call[p].flags
<1>1. PICK n : n = call[p].node
  OBVIOUS
<1>2. call[p].pc \in {"root", "parent root"} /\ UnchangedState
  BY DEF GetRoot, At
<1>3. n \in Dirs /\ n \in Inode
  BY <1>1, <1>2, OfProcess, Distinct DEF CallOK
<1>4. Root(n[1]) = n
  BY <1>3 DEF Dirs, Root
<1>5. Good(n, mounted, on_disk)
  <2>1. Good(Held[<<"call", p>>], mounted, on_disk)
    BY <1>1, <1>3, OfProcess, HeldIsGood
  <2> QED BY <1>1, <2>1, OfProcess
<1>6. Counts(Dec(Inc(ref_count, n), n)) /\ Arrives(p, n, call[p].pc = "parent root")
  BY <1>1, <1>4 DEF GetRoot
<1>7. call[p].pc = "parent root" => "creat" \in call[p].flags
  BY OfProcess DEF CallOK
<1> QED BY <1>1, <1>2, <1>3, <1>5, <1>6, <1>7

LEMMA GetRootKeeps ==
  ASSUME IInv, NEW p \in Proc, GetRoot(p)
  PROVE  IInv'
<1>1. PICK n \in Dirs :
        /\ n = call[p].node /\ Good(n, mounted, on_disk)
        /\ Counts(Dec(Inc(ref_count, n), n)) /\ UnchangedState
        /\ call[p].pc \in {"root", "parent root"}
        /\ Arrives(p, n, call[p].pc = "parent root")
        /\ call[p].pc = "parent root" => "creat" \in call[p].flags
  BY RootIsGood
<1>2. n \in Inode
  BY Distinct
<1>3. PICK c \in CallSet :
        Goes(p, c) /\ c.pc # "truncate" /\ c.node = n /\ CallOK(c, file[p])
  BY <1>1, <1>2, ArrivedIsCall
<1>4. Kept(Dec(Inc(ref_count, n), n), [Held EXCEPT ![<<"call", p>>] = n], mounted, on_disk)
  BY <1>1, <1>2, OfProcess, KeptMoves
<1>5. Kept(ref_count', [Held EXCEPT ![<<"call", p>>] = c.node], mounted, on_disk)
  BY <1>1, <1>3, <1>4 DEF Counts
<1> QED BY <1>1, <1>3, <1>5, CallKeeps DEF Goes, Counts

LEMMA LookupFindsKeeps ==
  ASSUME IInv, NEW p \in Proc, LookupFinds(p)
  PROVE  IInv'
<1> DEFINE n == Named(p)
           a == call[p].node
<1>1. /\ call[p].pc = "sub" /\ n \in on_disk
      /\ Counts(Dec(Inc(ref_count, n), a)) /\ UnchangedState
      /\ Finds(p, n, call[p].flags)
  BY DEF LookupFinds, At
<1>2. /\ call[p] \in CallSet /\ CallOK(call[p], file[p]) /\ a \in Inode
  BY <1>1, OfProcess DEF CallOK
<1>3. n \in Regular /\ n \in Inode
  BY <1>1, Distinct DEF IInv, TypeOK
<1>4. Good(a, mounted, on_disk)
  <2>1. Good(Held[<<"call", p>>], mounted, on_disk)
    BY <1>2, OfProcess, HeldIsGood
  <2> QED BY <2>1, OfProcess
<1>5. a \notin Devices
  <2>1. a[1] \in Disk
    BY <1>3 DEF Named, Regular
  <2> QED BY <2>1, VfsAssumption DEF Devices, DevNode
<1>6. Good(n, mounted, on_disk)
  BY <1>1, <1>4, <1>5 DEF Good, Named
<1>7. call[p].flags \in Flags
  BY <1>2 DEF CallSet
<1> HIDE DEF n
<1>8. PICK c \in CallSet : Goes(p, c) /\ c.pc = "found" /\ c.node = n /\ CallOK(c, file[p])
  BY <1>1, <1>2, <1>3, <1>7, FoundIsCall DEF CallOK
<1>9. Kept(Dec(Inc(ref_count, n), a), [Held EXCEPT ![<<"call", p>>] = n], mounted, on_disk)
  BY <1>2, <1>3, <1>6, OfProcess, KeptMoves
<1>10. Kept(ref_count', [Held EXCEPT ![<<"call", p>>] = c.node], mounted, on_disk)
  BY <1>1, <1>8, <1>9 DEF Counts
<1> QED BY <1>1, <1>8, <1>10, CallKeeps DEF Goes, Counts

LEMMA LookupFailsKeeps ==
  ASSUME IInv, NEW p \in Proc, LookupFails(p)
  PROVE  IInv'
<1>1. /\ call[p].pc = "sub" /\ UnchangedState
      /\ Counts(Dec(ref_count, call[p].node))
  BY DEF LookupFails, At
<1>2. /\ call[p] \in CallSet /\ CallOK(call[p], file[p]) /\ call[p].node \in Inode
  BY <1>1, OfProcess DEF CallOK
<1>3. ASSUME Returns(p) PROVE IInv'
  BY <1>1, <1>2, <1>3, IdleIsCall, IdleOK, DropsOne DEF Returns
<1>4. ASSUME "creat" \in call[p].flags,
             Goes(p, [PathLeft(call[p]) EXCEPT !.pc = "parent", !.node = NULL])
      PROVE  IInv'
  <2> DEFINE c == [PathLeft(call[p]) EXCEPT !.pc = "parent", !.node = NULL]
  <2>1. /\ PathLeft(call[p]) \in CallSet /\ PathLeft(call[p]).op = call[p].op
        /\ PathLeft(call[p]).flags = call[p].flags
        /\ PathLeft(call[p]).start \in {"cwd", "boot", ":"}
    BY <1>2 DEF CallSet, PathLeft, Start
  <2>2. /\ c \in CallSet /\ c.pc = "parent" /\ c.node = NULL /\ c.op = call[p].op
        /\ c.start \in {"cwd", "boot", ":"} /\ c.flags = call[p].flags
    BY <2>1 DEF CallSet
  <2> HIDE DEF c
  <2>3. CallOK(c, file[p])
    BY <2>2, <1>2, <1>4 DEF CallOK
  <2>4. Goes(p, c)
    BY <1>4 DEF c
  <2> QED BY <1>1, <1>2, <2>2, <2>3, <2>4, DropsOne
<1> QED BY <1>3, <1>4 DEF LookupFails

\* The call forgets what it has in hand: the reference stays behind.
LEMMA ExistsKeeps ==
  ASSUME IInv, NEW p \in Proc, Exists(p)
  PROVE  IInv'
<1>1. call[p].pc = "found" /\ Goes(p, Idle) /\ NoCounts /\ UnchangedState
  BY DEF Exists, At, Returns
<1>2. Kept(ref_count, [Held EXCEPT ![<<"call", p>>] = NULL], mounted, on_disk)
  BY OfProcess, KeptForgets
<1> QED BY <1>1, <1>2, IdleIsCall, IdleOK, CallKeeps DEF Goes, NoCounts

\* The file a path names in a directory.
LEMMA NamedIs ==
  ASSUME NEW p, call[p] \in CallSet, call[p].node \in Dirs, call[p].sub # NULL
  PROVE  Named(p) \in Regular /\ Named(p)[1] = call[p].node[1]
<1>1. call[p].sub \in Subpath \cup Disk \cup Char
  BY DEF CallSet
<1>2. call[p].sub \in Name \cup Disk \cup Char
  BY <1>1 DEF Subpath
<1>3. PICK d \in Disk : call[p].node = <<d, "root">>
  BY DEF Dirs, Root
<1>4. Named(p) = <<d, call[p].sub>>
  BY <1>3 DEF Named
<1> QED BY <1>2, <1>3, <1>4 DEF Regular

\* vop_create hands back the new inode; the directory keeps its reference.
LEMMA CreateKeeps ==
  ASSUME IInv, NEW p \in Proc, Create(p)
  PROVE  IInv'
<1> DEFINE n == Named(p)
           d == call[p].node
<1>1. /\ call[p].pc = "create" /\ call[p].sub # NULL
      /\ on_disk' = on_disk \cup {n}
      /\ Counts(Inc(ref_count, n))
      /\ Finds(p, n, {"creat"})
      /\ UNCHANGED <<open_count, mounted, bootfs_node, pwd, file>>
  BY DEF Create, At
<1>2. /\ call[p] \in CallSet /\ d \in Dirs /\ call[p].op = "open"
  BY <1>1, OfProcess DEF CallOK
<1>3. n \in Regular /\ n[1] = d[1]
  BY <1>1, <1>2, NamedIs
<1>4. n \in Inode /\ d \in Inode /\ d \notin Devices
  BY <1>2, <1>3, Distinct
<1>5. Good(d, mounted, on_disk)
  <2>1. Good(Held[<<"call", p>>], mounted, on_disk)
    BY <1>4, OfProcess, HeldIsGood
  <2> QED BY <2>1, OfProcess
<1>6. Good(n, mounted, on_disk')
  BY <1>1, <1>3, <1>4, <1>5 DEF Good
<1> HIDE DEF n, d
<1>7. {"creat"} \in Flags
  BY DEF Flags
<1>8. PICK c \in CallSet : Goes(p, c) /\ c.pc = "found" /\ c.node = n /\ CallOK(c, file[p])
  BY <1>1, <1>2, <1>4, <1>7, FoundIsCall
<1> DEFINE g == [Held EXCEPT ![<<"call", p>>] = NULL]
           g2 == [g EXCEPT ![<<"call", p>>] = n]
<1>9. Kept(ref_count, g, mounted, on_disk) /\ g[<<"call", p>>] = NULL
  BY OfProcess, KeptForgets
<1>10. Kept(ref_count, g, mounted, on_disk')
  BY <1>1, <1>9, KeptGrows
<1>11. Kept(Inc(ref_count, n), g2, mounted, on_disk')
  <2> HIDE DEF g
  <2> QED BY <1>4, <1>6, <1>9, <1>10, OfProcess, KeptTakes
<1>12. /\ call \in [Proc -> CallSet] /\ file \in [Proc -> Inode \cup {NULL}]
       /\ open_count \in [Inode -> Nat] /\ on_disk \in SUBSET Regular
       /\ DirsOK /\ OpensExact
  BY DEF IInv, TypeOK, CallSet
<1>13. OpensExact'
  <2>1. ASSUME NEW m \in Inode PROVE Openers(m)' = Openers(m)
    BY <1>1, <1>8, <1>12 DEF Openers, Goes
  <2> QED BY <2>1, <1>1, <1>12 DEF OpensExact
<1>14. /\ g2[<<"boot", NULL>>] = bootfs_node'
       /\ \A f \in Files : g2[<<"pwd", f>>] = pwd'[f]
       /\ \A q \in Proc : g2[<<"file", q>>] = file'[q] /\ g2[<<"call", q>>] = call'[q].node
  BY <1>1, <1>8, <1>12, OfProcess, HeldIs, Places DEF Goes
<1> HIDE DEF g2
<1>15. on_disk' \in SUBSET Regular
  BY <1>1, <1>3, <1>12 DEF n
<1> QED BY <1>1, <1>8, <1>11, <1>12, <1>13, <1>14, <1>15, StepKeeps DEF Goes, Counts, DirsOK

LEMMA CreateFailsKeeps ==
  ASSUME IInv, NEW p \in Proc, CreateFails(p)
  PROVE  IInv'
<1>1. /\ UNCHANGED <<ref_count, call, open_count, on_disk, mounted, bootfs_node, pwd, file>>
      /\ halted' = "node not initialised"
  BY DEF CreateFails, UnchangedState
<1>2. Held' = Held
  <2>1. Held = [x \in Holder |-> Held[x]]
    BY OfProcess
  <2> QED BY <1>1, <2>1, HeldIs, HeldBecomes
<1>3. TypeOK' /\ DirsOK' /\ halted' # "no vop_reclaim"
  BY <1>1 DEF IInv, TypeOK, DirsOK
<1>4. \A q \in Proc : CallOK(call[q], file[q])'
  BY <1>1 DEF IInv, CallOK
<1>5. Kept(ref_count, Held, mounted, on_disk)'
  BY <1>1, <1>2 DEF IInv, Kept, Good
<1>6. OpensExact'
  BY <1>1 DEF IInv, OpensExact, Openers
<1> QED BY <1>3, <1>4, <1>5, <1>6 DEF IInv

LEMMA OpenFailsKeeps ==
  ASSUME IInv, NEW p \in Proc, OpenFails(p)
  PROVE  IInv'
<1>1. /\ call[p].pc = "found" /\ Goes(p, Idle) /\ UnchangedState
      /\ Counts(Dec(ref_count, call[p].node))
  BY DEF OpenFails, Opening, At, Returns
<1>2. call[p].node \in Inode
  BY <1>1, OfProcess DEF CallOK
<1> QED BY <1>1, <1>2, IdleIsCall, IdleOK, DropsOne

LEMMA SetCurdirFailsKeeps ==
  ASSUME IInv, NEW p \in Proc, SetCurdirFails(p)
  PROVE  IInv'
<1>1. /\ call[p].pc = "found" /\ Goes(p, Idle) /\ UnchangedState
      /\ Counts(Dec(ref_count, call[p].node))
  BY DEF SetCurdirFails, At, Returns
<1>2. call[p].node \in Inode
  BY <1>1, OfProcess DEF CallOK
<1> QED BY <1>1, <1>2, IdleIsCall, IdleOK, DropsOne

LEMMA DropKeeps ==
  ASSUME IInv, NEW p \in Proc, Drop(p)
  PROVE  IInv'
<1>1. /\ call[p].pc = "drop" /\ Goes(p, Idle) /\ UnchangedState
      /\ Counts(Dec(ref_count, call[p].node))
  BY DEF Drop, At, Returns
<1>2. call[p].node \in Inode
  BY <1>1, OfProcess DEF CallOK
<1> QED BY <1>1, <1>2, IdleIsCall, IdleOK, DropsOne

\* vfs_get_curdir, for a call that goes on with pc.
LEMMA GetCurdirKeeps ==
  ASSUME IInv, NEW p \in Proc, NEW pc \in {"change", "drop"},
         call[p].pc \in {"idle", "get"}, GetCurdir(p, [Idle EXCEPT !.pc = pc])
  PROVE  IInv'
<1> DEFINE n == cwd(p)
           c == [[Idle EXCEPT !.pc = pc] EXCEPT !.node = n]
<1>1. /\ n # NULL /\ Counts(Inc(ref_count, n)) /\ UnchangedState /\ Goes(p, c)
  BY DEF GetCurdir
<1>2. n \in Dirs /\ n \in Inode
  BY <1>1, OfProcess, Distinct
<1>3. Good(n, mounted, on_disk)
  <2>1. Held[<<"pwd", filesp(p)>>] = n /\ <<"pwd", filesp(p)>> \in Holder
    BY OfProcess, HeldIs, Places DEF cwd
  <2>2. Good(Held[<<"pwd", filesp(p)>>], mounted, on_disk)
    BY <2>1, <1>2, OfProcess, HeldIsGood
  <2> QED BY <2>1, <2>2
<1>4. call[p].node = NULL
  BY OfProcess DEF CallOK
<1> HIDE DEF n
<1>5. c \in CallSet /\ c.pc = pc /\ c.op = "none" /\ c.node = n /\ c.flags = {}
  BY <1>2, IdleIsCall DEF CallSet
<1> HIDE DEF c
<1>6. CallOK(c, file[p])
  BY <1>2, <1>5 DEF CallOK
<1> QED BY <1>1, <1>2, <1>3, <1>4, <1>5, <1>6, TakesOne

LEMMA NoBootfsKeeps ==
  ASSUME IInv, NEW p \in Proc, NoBootfs(p)
  PROVE  IInv'
<1>1. call[p].pc = "get" /\ Goes(p, Idle) /\ NoCounts /\ UnchangedState
  BY DEF NoBootfs, At, Returns
<1>2. call[p].node = NULL
  BY <1>1, OfProcess DEF CallOK
<1> QED BY <1>1, <1>2, IdleIsCall, IdleOK, EmptyHanded

\* One process more, or fewer, has n open.
LEMMA OpensMore ==
  ASSUME OpensExact, open_count \in [Inode -> Nat], NEW n \in Inode, NEW p \in Proc,
         p \notin Openers(n), Openers(n)' = Openers(n) \cup {p},
         \A m \in Inode \ {n} : Openers(m)' = Openers(m),
         open_count' = Inc(open_count, n)
  PROVE  OpensExact'
<1>1. IsFiniteSet(Openers(n))
  BY VfsAssumption, FS_Subset DEF Openers
<1>2. Cardinality(Openers(n) \cup {p}) = Cardinality(Openers(n)) + 1
  BY <1>1, FS_AddElement
<1> QED BY <1>2 DEF OpensExact, Inc

LEMMA OpensLess ==
  ASSUME OpensExact, open_count \in [Inode -> Nat], NEW n \in Inode, NEW p \in Proc,
         p \in Openers(n), Openers(n)' = Openers(n) \ {p},
         \A m \in Inode \ {n} : Openers(m)' = Openers(m),
         open_count' = Dec(open_count, n)
  PROVE  OpensExact' /\ open_count' \in [Inode -> Nat]
<1>1. IsFiniteSet(Openers(n))
  BY VfsAssumption, FS_Subset DEF Openers
<1>2. Cardinality(Openers(n) \ {p}) = Cardinality(Openers(n)) - 1
  BY <1>1, FS_RemoveElement
<1>3. Cardinality(Openers(n)) # 0
  BY <1>1, FS_EmptySet
<1>4. open_count[n] \in Nat /\ open_count[n] = Cardinality(Openers(n))
  BY DEF OpensExact
<1>5. open_count[n] - 1 \in Nat
  BY <1>3, <1>4
<1> QED BY <1>2, <1>5 DEF OpensExact, Dec

\* The types of the state, at hand.
LEMMA Types ==
  ASSUME IInv
  PROVE  /\ call \in [Proc -> CallSet] /\ file \in [Proc -> Inode \cup {NULL}]
         /\ open_count \in [Inode -> Nat] /\ ref_count \in [Inode -> Nat]
         /\ on_disk \in SUBSET Regular /\ mounted \in SUBSET Disk
         /\ pwd \in [Files -> Dirs \cup {NULL}] /\ bootfs_node \in Dirs \cup {NULL}
         /\ OpensExact
         /\ Held \in [Holder -> Inode \cup {NULL}]
BY DEF IInv, TypeOK, CallSet, DirsOK, Kept

\* The reference of a call becomes that of its open file.
LEMMA HandsToFile ==
  ASSUME IInv, NEW p \in Proc, call[p].node \in Inode, file[p] = NULL
  PROVE  Kept(ref_count,
              [Held EXCEPT ![<<"call", p>>] = NULL, ![<<"file", p>>] = call[p].node],
              mounted, on_disk)
<1>1. /\ <<"file", p>> \in Holder /\ <<"call", p>> # <<"file", p>>
      /\ Held[<<"file", p>>] = NULL
  BY Places, HeldIs
<1> QED BY <1>1, OfProcess, KeptHands

LEMMA OpenedKeeps ==
  ASSUME IInv, NEW p \in Proc, Opened(p)
  PROVE  IInv'
<1>0. PICK n : n = call[p].node
  OBVIOUS
<1>1. /\ call[p].pc = "found" /\ call[p].op = "open"
      /\ open_count' = Inc(open_count, n)
      /\ NoCounts /\ UNCHANGED <<on_disk, mounted, bootfs_node, pwd>>
  BY <1>0 DEF Opened, Opening, At
<1>2. n \in Inode /\ file[p] = NULL /\ call[p] \in CallSet /\ CallOK(call[p], file[p])
  BY <1>0, <1>1, OfProcess DEF CallOK
<1>3. p \notin Openers(n)
  BY <1>0, <1>1, <1>2, Distinct DEF Openers
<1>4. open_count' \in [Inode -> Nat]
  BY <1>0, <1>1, <1>2, Types DEF Inc
<1>5. ASSUME Goes(p, [call[p] EXCEPT !.pc = "truncate"]), UNCHANGED file
      PROVE  IInv'
  <2> DEFINE c == [call[p] EXCEPT !.pc = "truncate"]
  <2>1. c \in CallSet /\ c.pc = "truncate" /\ c.node = n /\ c.op = "open"
    BY <1>0, <1>1, <1>2 DEF CallSet
  <2>2. call' = [call EXCEPT ![p] = c]
    BY <1>5 DEF Goes
  <2> HIDE DEF c
  <2>3. CallOK(c, file'[p])
    BY <1>2, <1>5, <2>1 DEF CallOK
  <2>4. Openers(n)' = Openers(n) \cup {p}
    BY <1>1, <1>5, <2>1, <2>2, Types DEF Openers
  <2>5. \A m \in Inode \ {n} : Openers(m)' = Openers(m)
    BY <1>1, <1>5, <2>1, <2>2, Types DEF Openers
  <2>6. OpensExact'
    BY <1>0, <1>1, <1>2, <1>3, <2>4, <2>5, Types, OpensMore
  <2>7. /\ Held[<<"boot", NULL>>] = bootfs_node'
        /\ \A f \in Files : Held[<<"pwd", f>>] = pwd'[f]
        /\ \A q \in Proc : Held[<<"file", q>>] = file'[q] /\ Held[<<"call", q>>] = call'[q].node
    BY <1>0, <1>1, <1>5, <2>1, <2>2, Types, HeldIs
  <2>8. Kept(ref_count', Held, mounted, on_disk')
    BY <1>1, OfProcess DEF NoCounts
  <2> QED BY <1>1, <1>4, <1>5, <2>1, <2>2, <2>3, <2>6, <2>7, <2>8, Types, StepKeeps DEF NoCounts
<1>6. ASSUME Goes(p, Idle), file' = [file EXCEPT ![p] = n]
      PROVE  IInv'
  <2> DEFINE g == [Held EXCEPT ![<<"call", p>>] = NULL, ![<<"file", p>>] = n]
  <2>1. call' = [call EXCEPT ![p] = Idle]
    BY <1>6 DEF Goes
  <2>2. Openers(n)' = Openers(n) \cup {p}
    BY <1>1, <1>6, <1>0, <2>1, IdleIsCall, Types DEF Openers
  <2>3. \A m \in Inode \ {n} : Openers(m)' = Openers(m)
    BY <1>0, <1>1, <1>2, <1>6, <1>0, <2>1, IdleIsCall, Types, Distinct DEF Openers
  <2>4. OpensExact'
    BY <1>0, <1>1, <1>2, <1>3, <2>2, <2>3, Types, OpensMore
  <2>5. /\ g[<<"boot", NULL>>] = bootfs_node'
        /\ \A f \in Files : g[<<"pwd", f>>] = pwd'[f]
        /\ \A q \in Proc : g[<<"file", q>>] = file'[q] /\ g[<<"call", q>>] = call'[q].node
    BY <1>1, <1>6, <1>0, <2>1, IdleIsCall, Types, HeldIs, Places
  <2>6. Kept(ref_count', g, mounted, on_disk')
    BY <1>0, <1>1, <1>2, HandsToFile DEF NoCounts
  <2>7. /\ file' \in [Proc -> Inode \cup {NULL}]
        /\ \A q \in Proc \ {p} : file'[q] = file[q]
    BY <1>2, <1>6, Types
  <2> HIDE DEF g
  <2> QED BY <1>1, <1>4, <2>1, <2>4, <2>5, <2>6, <2>7, IdleIsCall, IdleOK, Types, StepKeeps
          DEF NoCounts
<1> QED BY <1>0, <1>5, <1>6 DEF Opened, Returns

LEMMA TruncateKeeps ==
  ASSUME IInv, NEW p \in Proc, Truncate(p)
  PROVE  IInv'
<1>0. PICK n : n = call[p].node
  OBVIOUS
<1>1. /\ call[p].pc = "truncate" /\ NoCounts
      /\ UNCHANGED <<on_disk, mounted, bootfs_node, pwd>>
  BY DEF Truncate, At
<1>2. n \in Inode /\ file[p] = NULL
  BY <1>0, <1>1, OfProcess DEF CallOK
<1>3. ASSUME file' = [file EXCEPT ![p] = n], call' = [call EXCEPT ![p] = Idle],
             UNCHANGED open_count
      PROVE  IInv'
  <2> DEFINE g == [Held EXCEPT ![<<"call", p>>] = NULL, ![<<"file", p>>] = n]
  <2>1. \A m \in Inode : Openers(m)' = Openers(m)
    BY <1>0, <1>1, <1>2, <1>3, IdleIsCall, Types, Distinct DEF Openers
  <2>2. OpensExact'
    BY <1>3, <2>1, Types DEF OpensExact
  <2>3. /\ g[<<"boot", NULL>>] = bootfs_node'
        /\ \A f \in Files : g[<<"pwd", f>>] = pwd'[f]
        /\ \A q \in Proc : g[<<"file", q>>] = file'[q] /\ g[<<"call", q>>] = call'[q].node
    BY <1>0, <1>1, <1>3, IdleIsCall, Types, HeldIs, Places
  <2>4. Kept(ref_count', g, mounted, on_disk')
    BY <1>0, <1>1, <1>2, <1>3, HandsToFile DEF NoCounts
  <2>5. /\ file' \in [Proc -> Inode \cup {NULL}]
        /\ \A q \in Proc \ {p} : file'[q] = file[q]
    BY <1>0, <1>2, <1>3, Types
  <2>6. /\ Idle \in CallSet /\ CallOK(Idle, file'[p]) /\ call' = [call EXCEPT ![p] = Idle]
        /\ pwd' \in [Files -> Dirs \cup {NULL}] /\ bootfs_node' \in Dirs \cup {NULL}
        /\ open_count' \in [Inode -> Nat] /\ on_disk' \in SUBSET Regular
        /\ mounted' = mounted /\ halted' = halted
    BY <1>1, <1>3, IdleIsCall, IdleOK, Types DEF NoCounts
  <2> HIDE DEF g
  <2> QED BY ONLY IInv, p \in Proc, <2>2, <2>3, <2>4, <2>5, <2>6, StepKeeps
<1>4. ASSUME open_count' = Dec(open_count, n), UNCHANGED file,
             call' = [call EXCEPT ![p] = [Idle EXCEPT !.pc = "drop", !.node = n]]
      PROVE  IInv'
  <2> DEFINE c == [Idle EXCEPT !.pc = "drop", !.node = n]
  <2>0. /\ c \in CallSet /\ c.pc = "drop" /\ c.op = "none" /\ c.node = n /\ c.flags = {}
        /\ call' = [call EXCEPT ![p] = c]
    BY <1>2, <1>4, IdleIsCall DEF CallSet
  <2> HIDE DEF c
  <2>1. p \in Openers(n)
    BY <1>0, <1>1 DEF Openers
  <2>2. Openers(n)' = Openers(n) \ {p}
    BY <1>0, <1>1, <1>2, <1>4, <2>0, Types, Distinct DEF Openers
  <2>3. \A m \in Inode \ {n} : Openers(m)' = Openers(m)
    BY <1>0, <1>1, <1>2, <1>4, <2>0, Types, Distinct DEF Openers
  <2>4. OpensExact' /\ open_count' \in [Inode -> Nat]
    BY <1>0, <1>2, <1>4, <2>1, <2>2, <2>3, Types, OpensLess
  <2>5. /\ Held[<<"boot", NULL>>] = bootfs_node'
        /\ \A f \in Files : Held[<<"pwd", f>>] = pwd'[f]
        /\ \A q \in Proc : Held[<<"file", q>>] = file'[q] /\ Held[<<"call", q>>] = call'[q].node
    BY <1>0, <1>1, <1>4, <2>0, Types, HeldIs
  <2>6. Kept(ref_count', Held, mounted, on_disk') /\ halted' = halted
    BY <1>1, OfProcess DEF NoCounts
  <2>7. CallOK(c, file'[p])
    BY <1>2, <2>0 DEF CallOK
  <2> QED BY <1>1, <1>4, <2>0, <2>4, <2>5, <2>6, <2>7, Types, StepKeeps
<1> QED BY <1>0, <1>1, <1>3, <1>4 DEF Truncate, Returns, Goes

LEMMA CloseKeeps ==
  ASSUME IInv, NEW p \in Proc, Close(p)
  PROVE  IInv'
<1>0. PICK n : n = file[p]
  OBVIOUS
<1> DEFINE c == [Idle EXCEPT !.pc = "drop", !.node = n]
           g == [Held EXCEPT ![<<"file", p>>] = NULL, ![<<"call", p>>] = n]
<1>1. /\ call[p].pc = "idle" /\ n # NULL /\ open_count' = Dec(open_count, n)
      /\ file' = [file EXCEPT ![p] = NULL] /\ call' = [call EXCEPT ![p] = c]
      /\ NoCounts /\ UNCHANGED <<on_disk, mounted, bootfs_node, pwd>>
  BY <1>0 DEF Close, Begins, Goes
<1>2. n \in Inode /\ call[p].node = NULL
  BY <1>0, <1>1, OfProcess DEF CallOK
<1>3. c \in CallSet /\ c.pc = "drop" /\ c.op = "none" /\ c.node = n /\ c.flags = {}
  BY <1>0, <1>2, IdleIsCall DEF CallSet
<1> HIDE DEF c
<1>4. CallOK(c, file'[p])
  BY <1>0, <1>2, <1>3 DEF CallOK
<1>5. Kept(ref_count, g, mounted, on_disk)
  <2>1. /\ <<"file", p>> \in Holder /\ <<"file", p>> # <<"call", p>>
        /\ <<"file", p>>[1] # "vdev" /\ Held[<<"file", p>>] = n
        /\ Held[<<"call", p>>] = NULL
    BY <1>0, <1>2, Places, HeldIs
  <2> QED BY <1>0, <1>2, <2>1, OfProcess, KeptHands
<1>6. p \in Openers(n)
  BY <1>0 DEF Openers
<1>7. Openers(n)' = Openers(n) \ {p}
  BY <1>0, <1>1, <1>2, <1>3, Types, Distinct DEF Openers
<1>8. \A m \in Inode \ {n} : Openers(m)' = Openers(m)
  BY <1>0, <1>1, <1>2, <1>3, Types, Distinct DEF Openers
<1>9. OpensExact' /\ open_count' \in [Inode -> Nat]
  BY <1>0, <1>1, <1>2, <1>6, <1>7, <1>8, Types, OpensLess
<1>10. /\ g[<<"boot", NULL>>] = bootfs_node'
       /\ \A f \in Files : g[<<"pwd", f>>] = pwd'[f]
       /\ \A q \in Proc : g[<<"file", q>>] = file'[q] /\ g[<<"call", q>>] = call'[q].node
  BY <1>0, <1>1, <1>3, Types, HeldIs, Places
<1>11. /\ file' \in [Proc -> Inode \cup {NULL}]
       /\ \A q \in Proc \ {p} : file'[q] = file[q]
  BY <1>0, <1>1, Types
<1>12. Kept(ref_count', g, mounted, on_disk')
  BY <1>0, <1>1, <1>5 DEF NoCounts
<1> HIDE DEF g
<1> QED BY <1>0, <1>1, <1>3, <1>4, <1>9, <1>10, <1>11, <1>12, Types, StepKeeps DEF NoCounts

\* Steps that change no file: the openers stay as they are.
LEMMA SameOpeners ==
  ASSUME IInv, NEW p \in Proc, NEW c \in CallSet, call' = [call EXCEPT ![p] = c],
         call[p].pc # "truncate", c.pc # "truncate", UNCHANGED <<file, open_count>>
  PROVE  OpensExact'
<1>1. ASSUME NEW m \in Inode PROVE Openers(m)' = Openers(m)
  BY Types DEF Openers
<1> QED BY <1>1, Types DEF OpensExact

\* The working directory is moved, and the reference of the lookup goes.
LEMMA SetCurdirKeeps ==
  ASSUME IInv, NEW p \in Proc, SetCurdir(p)
  PROVE  IInv'
<1>0. PICK n : n = call[p].node
  OBVIOUS
<1>1. /\ call[p].pc = "found" /\ UNCHANGED <<open_count, on_disk, mounted, bootfs_node, file>>
      /\ n \in Dirs
      /\ cwd(p) # n => /\ pwd' = [pwd EXCEPT ![filesp(p)] = n]
                       /\ Counts(Dec(Entered(cwd(p), n), n))
      /\ cwd(p) = n => UNCHANGED pwd /\ Counts(Dec(ref_count, n))
  BY <1>0 DEF SetCurdir, At
<1>2. PICK c \in CallSet : /\ call' = [call EXCEPT ![p] = c] /\ c.pc \in {"idle", "get"}
                           /\ c.node = NULL /\ CallOK(c, file[p])
  <2>1. CASE Returns(p)
    BY <2>1, IdleIsCall, IdleOK DEF Returns, Goes
  <2>2. CASE Goes(p, [Idle EXCEPT !.pc = "get"])
    <3> DEFINE c == [Idle EXCEPT !.pc = "get"]
    <3>1. c \in CallSet /\ c.pc = "get" /\ c.op = "none" /\ c.node = NULL /\ c.flags = {}
      BY IdleIsCall DEF CallSet
    <3> HIDE DEF c
    <3>2. CallOK(c, file[p])
      BY <3>1 DEF CallOK
    <3>3. call' = [call EXCEPT ![p] = c]
      BY <2>2 DEF Goes, c
    <3> QED BY <3>1, <3>2, <3>3
  <2> QED BY <2>1, <2>2 DEF SetCurdir
<1>3. n \in Inode
  BY <1>0, <1>1, OfProcess DEF CallOK
<1>4. CASE cwd(p) = n
  BY <1>0, <1>1, <1>2, <1>3, <1>4, DropsOne DEF Goes, UnchangedState
<1>5. CASE cwd(p) # n
  <2> DEFINE x == <<"pwd", filesp(p)>>
             y == <<"call", p>>
             g == [Held EXCEPT ![x] = n]
             g2 == [g EXCEPT ![y] = NULL]
  <2>1. n \in Dirs /\ cwd(p) # n
    BY <1>1, <1>5
  <2>2. /\ x \in Holder /\ x[1] # "vdev" /\ Held[x] = cwd(p) /\ x # y
        /\ y \in Holder /\ y[1] # "vdev" /\ Held[y] = n
        /\ Kept(ref_count, Held, mounted, on_disk)
    BY <1>0, OfProcess, Places, HeldIs DEF cwd
  <2>3. Good(n, mounted, on_disk)
    <3>1. Good(Held[y], mounted, on_disk)
      BY <2>2, <1>3, HeldIsGood
    <3> QED BY <3>1, <2>2
  <2>4. Kept(Entered(cwd(p), n), g, mounted, on_disk)
    <3>1. CASE cwd(p) = NULL
      BY <3>1, <1>3, <2>2, <2>3, KeptTakes DEF Entered
    <3>2. CASE cwd(p) # NULL
      <4>1. Held[x] \in Inode
        BY <3>2, <2>2, OfProcess, Distinct
      <4>2. Kept(Dec(Inc(ref_count, n), Held[x]), g, mounted, on_disk)
        BY <4>1, <1>3, <2>2, <2>3, KeptMoves
      <4> QED BY <4>2, <3>2, <2>2 DEF Entered
    <3> QED BY <3>1, <3>2
  <2>5. g[y] = n
    BY <2>2, Types
  <2>6. Kept(Dec(Entered(cwd(p), n), n), g2, mounted, on_disk)
    <3>1. Kept(Dec(Entered(cwd(p), n), g[y]), [g EXCEPT ![y] = NULL], mounted, on_disk)
      <4> HIDE DEF g, x, y
      <4> QED BY <1>3, <2>2, <2>4, <2>5, KeptDrops
    <3> QED BY <3>1, <2>5
  <2>7. /\ g2[<<"boot", NULL>>] = bootfs_node'
        /\ \A f \in Files : g2[<<"pwd", f>>] = pwd'[f]
        /\ \A q \in Proc : g2[<<"file", q>>] = file'[q] /\ g2[<<"call", q>>] = call'[q].node
    BY <1>1, <1>2, <1>5, Types, HeldIs, Places, OfProcess
  <2>8. pwd' \in [Files -> Dirs \cup {NULL}]
    BY <1>1, <1>5, <2>1, Types
  <2>9. OpensExact'
    BY <1>1, <1>2, SameOpeners
  <2> HIDE DEF g2
  <2>10. Kept(ref_count', g2, mounted, on_disk')
    BY <1>1, <1>5, <2>6 DEF Counts
  <2>11. CallOK(c, file'[p])
    BY <1>1, <1>2
  <2> QED BY <1>1, <1>2, <1>5, <2>7, <2>8, <2>9, <2>10, <2>11, Types, StepKeeps DEF Counts
<1> QED BY <1>4, <1>5

LEMMA LeaveDirKeeps ==
  ASSUME IInv, NEW p \in Proc, LeaveDir(p)
  PROVE  IInv'
<1> DEFINE x == <<"pwd", filesp(p)>>
           g == [Held EXCEPT ![x] = NULL]
<1>1. /\ call[p].pc = "idle" /\ cwd(p) # NULL /\ pwd' = [pwd EXCEPT ![filesp(p)] = NULL]
      /\ Counts(Dec(ref_count, cwd(p)))
      /\ UNCHANGED <<open_count, on_disk, mounted, bootfs_node, file, call>>
  BY DEF LeaveDir, Begins
<1>2. /\ x \in Holder /\ x[1] # "vdev" /\ Held[x] = cwd(p) /\ Held[x] \in Inode
  BY <1>1, OfProcess, Places, HeldIs, Distinct DEF cwd
<1>3. Kept(Dec(ref_count, Held[x]), g, mounted, on_disk)
  BY <1>2, OfProcess, KeptDrops
<1>4. /\ g[<<"boot", NULL>>] = bootfs_node'
      /\ \A f \in Files : g[<<"pwd", f>>] = pwd'[f]
      /\ \A q \in Proc : g[<<"file", q>>] = file'[q] /\ g[<<"call", q>>] = call'[q].node
  BY <1>1, Types, HeldIs, Places, OfProcess
<1>5. call[p] \in CallSet /\ call' = [call EXCEPT ![p] = call[p]] /\ CallOK(call[p], file'[p])
  BY <1>1, Types, OfProcess
<1>6. pwd' \in [Files -> Dirs \cup {NULL}]
  BY <1>1, Types
<1>7. OpensExact'
  BY <1>1, <1>5, SameOpeners
<1>8. Kept(ref_count', g, mounted, on_disk')
  BY <1>1, <1>2, <1>3 DEF Counts
<1> HIDE DEF g
<1> QED BY <1>1, <1>4, <1>5, <1>6, <1>7, <1>8, Types, StepKeeps DEF Counts

\* The reference of the call becomes that of bootfs_node, whose old one goes.
LEMMA ChangeBootfsKeeps ==
  ASSUME IInv, NEW p \in Proc, ChangeBootfs(p)
  PROVE  IInv'
<1>0. PICK n : n = call[p].node
  OBVIOUS
<1> DEFINE x == <<"boot", NULL>>
           y == <<"call", p>>
           g == [Held EXCEPT ![x] = NULL]
           g2 == [g EXCEPT ![y] = NULL, ![x] = n]
<1>1. /\ call[p].pc = "change" /\ bootfs_node' = n /\ Counts(DropOld(bootfs_node))
      /\ call' = [call EXCEPT ![p] = Idle]
      /\ UNCHANGED <<open_count, on_disk, mounted, pwd, file>>
  BY <1>0 DEF ChangeBootfs, At, Returns, Goes
<1>2. n \in Dirs \cup {NULL}
  BY <1>0, <1>1, OfProcess DEF CallOK
<1>3. /\ x \in Holder /\ x[1] # "vdev" /\ Held[x] = bootfs_node /\ x # y
      /\ y \in Holder /\ y[1] # "vdev" /\ Held[y] = n
      /\ Kept(ref_count, Held, mounted, on_disk)
  BY <1>0, OfProcess, Places, HeldIs
<1>4. Kept(DropOld(bootfs_node), g, mounted, on_disk)
  <2>1. CASE bootfs_node = NULL
    BY <2>1, <1>3, KeptForgets DEF DropOld
  <2>2. CASE bootfs_node # NULL
    <3>1. Held[x] \in Inode
      BY <2>2, <1>3, Types, Distinct
    <3>2. Kept(Dec(ref_count, Held[x]), g, mounted, on_disk)
      BY <3>1, <1>3, KeptDrops
    <3> QED BY <3>2, <2>2, <1>3 DEF DropOld
  <2> QED BY <2>1, <2>2
<1>5. g[x] = NULL /\ g[y] = n /\ g \in [Holder -> Inode \cup {NULL}]
  BY <1>3, Types
<1>6. Kept(DropOld(bootfs_node), g2, mounted, on_disk)
  <2>1. CASE n = NULL
    <3>1. g2 = g
      BY <2>1, <1>3, <1>5
    <3> QED BY <3>1, <1>4
  <2>2. CASE n # NULL
    <3>1. Kept(DropOld(bootfs_node), [g EXCEPT ![y] = NULL, ![x] = g[y]], mounted, on_disk)
      <4>1. g[y] \in Inode
        BY <2>2, <1>2, <1>5, Distinct
      <4> HIDE DEF g, x, y
      <4> QED BY <4>1, <1>3, <1>4, <1>5, KeptHands
    <3> QED BY <3>1, <1>5
  <2> QED BY <2>1, <2>2
<1>7. /\ g2[<<"boot", NULL>>] = bootfs_node'
      /\ \A f \in Files : g2[<<"pwd", f>>] = pwd'[f]
      /\ \A q \in Proc : g2[<<"file", q>>] = file'[q] /\ g2[<<"call", q>>] = call'[q].node
  BY <1>1, IdleIsCall, Types, HeldIs, Places, OfProcess
<1> HIDE DEF g2
<1>8. OpensExact'
  BY <1>1, IdleIsCall, SameOpeners
<1>9. Kept(ref_count', g2, mounted, on_disk')
  BY <1>1, <1>6 DEF Counts
<1> QED BY <1>1, <1>2, <1>7, <1>8, <1>9, IdleIsCall, IdleOK, Types, StepKeeps DEF Counts
-----------------------------------------------------------------------------
\* Mounting and unmounting: a file system goes only when nobody has an inode of it.
LEMMA MountsKeep ==
  ASSUME IInv, mounted' \in SUBSET Disk,
         NoCounts, UNCHANGED <<open_count, on_disk, bootfs_node, pwd, file, call>>,
         \A n \in Inode : ref_count[n] > 0 => Good(n, mounted', on_disk)
  PROVE  IInv'
<1>1. Held' = Held
  <2>1. Held = [x \in Holder |-> Held[x]]
    BY Types
  <2> QED BY <2>1, HeldIs, HeldBecomes
<1>2. TypeOK' /\ DirsOK' /\ halted' # "no vop_reclaim"
  BY DEF IInv, TypeOK, DirsOK, NoCounts
<1>3. \A q \in Proc : CallOK(call[q], file[q])'
  BY DEF IInv, CallOK
<1>4. Kept(ref_count, Held, mounted, on_disk)'
  BY <1>1 DEF IInv, Kept, Good, NoCounts
<1>5. OpensExact'
  BY DEF IInv, OpensExact, Openers
<1> QED BY <1>2, <1>3, <1>4, <1>5 DEF IInv

LEMMA MountKeeps ==
  ASSUME IInv, NEW d \in Disk, Mount(d)
  PROVE  IInv'
<1>1. \A n \in Inode : ref_count[n] > 0 => Good(n, mounted', on_disk)
  BY DEF IInv, Kept, Good, Mount
<1> QED BY <1>1, Types, MountsKeep DEF Mount

LEMMA UnmountKeeps ==
  ASSUME IInv, NEW D \in SUBSET Disk, Unmount(D)
  PROVE  IInv'
<1>1. ASSUME NEW n \in Inode, ref_count[n] > 0
      PROVE  Good(n, mounted', on_disk)
  <2>1. Good(n, mounted, on_disk) /\ mounted' = mounted \ D
    BY <1>1 DEF IInv, Kept, Unmount
  <2>2. CASE n \in Devices
    BY <2>1, <2>2 DEF Good
  <2>3. CASE n \notin Devices
    <3>1. n \in Dirs \cup Regular
      BY <2>3 DEF Inode
    <3>2. n[1] \notin D
      BY <1>1, <3>1 DEF Unmount, Busy
    <3> QED BY <2>1, <3>2 DEF Good
  <2> QED BY <2>2, <2>3
<1>2. mounted' \in SUBSET Disk
  BY Types DEF Unmount
<1> QED BY <1>1, <1>2, MountsKeep DEF Unmount
-----------------------------------------------------------------------------
(* The invariant *)

\* After dev_init vdev_list holds one reference on every device, and nothing else
\* holds any.
LEMMA InitHolds == Init => IInv
<1> SUFFICES ASSUME Init PROVE IInv
  OBVIOUS
<1>1. TypeOK
  BY IdleIsCall, Distinct DEF Init, TypeOK, CallSet, Regular
<1>2. DirsOK /\ halted # "no vop_reclaim"
  BY DEF Init, DirsOK
<1>3. \A p \in Proc : CallOK(call[p], file[p])
  BY IdleOK DEF Init
<1>4. Held \in [Holder -> Inode \cup {NULL}]
  <2>1. Held = [h \in Holder |-> Held[h]]
    BY DEF Held
  <2>2. ASSUME NEW h \in Holder PROVE Held[h] \in Inode \cup {NULL}
    <3>1. CASE h \in {"vdev"} \X Devices
      <4>1. PICK n \in Devices : h = <<"vdev", n>>
        BY <3>1
      <4> QED BY <4>1, HeldIs, Distinct
    <3>2. CASE h \in {"boot"} \X {NULL}
      <4>1. h = <<"boot", NULL>>
        BY <3>2
      <4> QED BY <4>1, HeldIs DEF Init
    <3>3. CASE h \in {"pwd"} \X Files
      <4>1. PICK f \in Files : h = <<"pwd", f>>
        BY <3>3
      <4> QED BY <4>1, HeldIs DEF Init
    <3>4. CASE h \in {"file", "call"} \X Proc
      <4>1. PICK p \in Proc : h = <<"file", p>> \/ h = <<"call", p>>
        BY <3>4
      <4> QED BY <4>1, HeldIs, IdleIsCall DEF Init
    <3> QED BY <3>1, <3>2, <3>3, <3>4, <2>2 DEF Holder
  <2> QED BY <2>1, <2>2
<1>5. ASSUME NEW h \in Holder, NEW n \in Inode, Held[h] = n
      PROVE  n \in Devices /\ h = <<"vdev", n>>
  <2>1. n # NULL
    BY Distinct
  <2>2. CASE h \in {"vdev"} \X Devices
    <3>1. PICK m \in Devices : h = <<"vdev", m>>
      BY <2>2
    <3> QED BY <3>1, <1>5, HeldIs
  <2>3. CASE h \in {"boot"} \X {NULL}
    <3>1. h = <<"boot", NULL>>
      BY <2>3
    <3> QED BY <3>1, <1>5, <2>1, HeldIs DEF Init
  <2>4. CASE h \in {"pwd"} \X Files
    <3>1. PICK f \in Files : h = <<"pwd", f>>
      BY <2>4
    <3> QED BY <3>1, <1>5, <2>1, HeldIs DEF Init
  <2>5. CASE h \in {"file", "call"} \X Proc
    <3>1. PICK p \in Proc : h = <<"file", p>> \/ h = <<"call", p>>
      BY <2>5
    <3> QED BY <3>1, <1>5, <2>1, HeldIs, IdleIsCall DEF Init
  <2> QED BY <2>2, <2>3, <2>4, <2>5, <1>5 DEF Holder
<1>6. ASSUME NEW n \in Inode
      PROVE  /\ ref_count[n] >= Cardinality(Holding(Held, n))
             /\ ref_count[n] > 0 => Good(n, mounted, on_disk)
  <2>1. CASE n \in Devices
    <3>1. Holding(Held, n) = {<<"vdev", n>>}
      BY <1>5, <2>1, HeldIs, Places DEF Holding
    <3>2. Cardinality({<<"vdev", n>>}) = 1
      BY FS_Singleton
    <3>3. ref_count[n] = 1
      BY <2>1 DEF Init
    <3>4. n \notin Regular
      BY <2>1, Distinct
    <3> QED BY <3>1, <3>2, <3>3, <3>4, <2>1 DEF Good
  <2>2. CASE n \notin Devices
    <3>1. Holding(Held, n) = {}
      BY <1>5, <2>2 DEF Holding
    <3>2. Cardinality({}) = 0
      BY FS_EmptySet
    <3>3. ref_count[n] = 0
      BY <2>2 DEF Init
    <3> QED BY <3>1, <3>2, <3>3
  <2> QED BY <2>1, <2>2
<1>7. Kept(ref_count, Held, mounted, on_disk)
  BY <1>1, <1>4, <1>6, HeldIs DEF Kept, TypeOK
<1>8. OpensExact
  <2> SUFFICES ASSUME NEW n \in Inode PROVE open_count[n] = Cardinality(Openers(n))
    BY DEF OpensExact
  <2>1. Openers(n) = {}
    BY Distinct, IdleIsCall DEF Openers, Init
  <2> QED BY <2>1, FS_EmptySet DEF Init
<1> QED BY <1>1, <1>2, <1>3, <1>7, <1>8 DEF IInv

LEMMA InvariantSuffices == IInv => RefsExact
<1> SUFFICES ASSUME IInv PROVE RefsExact
  OBVIOUS
<1>1. ASSUME NEW n \in Inode
      PROVE  /\ ref_count[n] >= Cardinality(Holders(n))
             /\ open_count[n] = Cardinality(Openers(n))
             /\ ref_count[n] > 0 /\ n \notin Devices => n[1] \in mounted
             /\ ref_count[n] > 0 /\ n \in Regular => n \in on_disk
  <2>1. Holders(n) = Holding(Held, n)
    BY DEF Holders, Holding, Held
  <2> QED BY <2>1 DEF IInv, Kept, Good, OpensExact
<1> QED BY <1>1 DEF RefsExact, IInv

\* Nothing moves: so does what the places hold.
LEMMA StutterKeeps ==
  ASSUME IInv, UNCHANGED vars
  PROVE  IInv'
<1>1. /\ mounted' \in SUBSET Disk /\ NoCounts
      /\ UNCHANGED <<open_count, on_disk, bootfs_node, pwd, file, call>>
      /\ \A n \in Inode : ref_count[n] > 0 => Good(n, mounted', on_disk)
  BY DEF vars, NoCounts, IInv, TypeOK, Kept
<1> QED BY <1>1, MountsKeep

LEMMA CallStepKeeps ==
  ASSUME IInv, NEW p \in Proc,
         \/ Open(p) \/ Chdir(p) \/ SetBootfs(p) \/ Close(p) \/ Drop(p)
         \/ Lookup(p) \/ OpenStep(p) \/ DirStep(p)
  PROVE  IInv'
<1>1. CASE Open(p) \/ Chdir(p) \/ SetBootfs(p) \/ Close(p) \/ Drop(p)
  BY <1>1, OpenKeeps, ChdirKeeps, SetBootfsKeeps, CloseKeeps, DropKeeps
<1>2. CASE Lookup(p)
  BY <1>2, GetDeviceFailsKeeps, GetDeviceKeeps, GetRootKeeps, LookupFindsKeeps,
     LookupFailsKeeps DEF Lookup
<1>3. CASE OpenStep(p)
  BY <1>3, ExistsKeeps, CreateKeeps, CreateFailsKeeps, OpenFailsKeeps, OpenedKeeps,
     TruncateKeeps DEF OpenStep
<1>4. CASE DirStep(p)
  <2>1. CASE SetCurdir(p) \/ SetCurdirFails(p) \/ LeaveDir(p) \/ NoBootfs(p) \/ ChangeBootfs(p)
    BY <2>1, SetCurdirKeeps, SetCurdirFailsKeeps, LeaveDirKeeps, NoBootfsKeeps,
       ChangeBootfsKeeps
  <2>2. CASE GetNewBootfs(p)
    BY <2>2, GetCurdirKeeps DEF GetNewBootfs, At
  <2>3. CASE Getcwd(p)
    BY <2>3, GetCurdirKeeps DEF Getcwd, Begins
  <2> QED BY <1>4, <2>1, <2>2, <2>3 DEF DirStep
<1> QED BY <1>1, <1>2, <1>3, <1>4

LEMMA StepsKeep ==
  ASSUME IInv, [Next]_vars
  PROVE  IInv'
<1>1. CASE UNCHANGED vars
  BY <1>1, StutterKeeps
<1>2. ASSUME NEW p \in Proc,
             \/ Open(p) \/ Chdir(p) \/ SetBootfs(p) \/ Close(p) \/ Drop(p)
             \/ Lookup(p) \/ OpenStep(p) \/ DirStep(p)
      PROVE  IInv'
  BY <1>2, CallStepKeeps
<1>3. ASSUME NEW d \in Disk, Mount(d) PROVE IInv'
  BY <1>3, MountKeeps
<1>4. ASSUME NEW D \in SUBSET Disk, Unmount(D) PROVE IInv'
  BY <1>4, UnmountKeeps
<1>5. CASE Stopped
  BY <1>5, StutterKeeps DEF Stopped
<1> QED BY <1>1, <1>2, <1>3, <1>4, <1>5 DEF Next

\* Whatever the processes do at once, everything that holds an inode is covered by a
\* reference, vop_reclaim never takes one that is held, and open_count is the number
\* of openers (inode_ref_inc and inode_ref_dec through all of kern/fs/vfs).
THEOREM ReferencesAlwaysExact == Spec => []RefsExact
<1>1. Init => IInv
  BY InitHolds
<1>2. IInv /\ [Next]_vars => IInv'
  BY StepsKeep
<1>3. IInv => RefsExact
  BY InvariantSuffices
<1> QED BY <1>1, <1>2, <1>3, PTL DEF Spec
-----------------------------------------------------------------------------
(* What a step may lose: Leaked(n) is how far the count of n is above the places    *)
(* that hold it.                                                                    *)

\* From counts r and places h to counts s and places g no inode gains or loses a
\* reference that nobody holds.
Balanced(r, h, s, g) ==
  \A n \in Inode : s[n] - Cardinality(Holding(g, n)) = r[n] - Cardinality(Holding(h, n))

LEMMA BalancedTakes ==
  ASSUME NEW r \in [Inode -> Int], NEW h \in [Holder -> Inode \cup {NULL}],
         NEW x \in Holder, h[x] = NULL, NEW n \in Inode
  PROVE  Balanced(r, h, Inc(r, n), [h EXCEPT ![x] = n])
<1> DEFINE g == [h EXCEPT ![x] = n]
           s == Inc(r, n)
<1> SUFFICES ASSUME NEW m \in Inode
             PROVE  s[m] - Cardinality(Holding(g, m)) = r[m] - Cardinality(Holding(h, m))
  BY DEF Balanced
<1>1. g[x] = n /\ \A y \in Holder \ {x} : g[y] = h[y]
  OBVIOUS
<1>2. s[m] = IF m = n THEN r[m] + 1 ELSE r[m]
  BY DEF Inc
<1>3. h[x] # m
  BY Distinct
<1> HIDE DEF g, s
<1>4. /\ Cardinality(Holding(h, m)) \in Nat
      /\ Cardinality(Holding(g, m)) \in Nat
      /\ h[x] # m /\ g[x] = m =>
           Cardinality(Holding(g, m)) = Cardinality(Holding(h, m)) + 1
      /\ (h[x] = m <=> g[x] = m) =>
           Cardinality(Holding(g, m)) = Cardinality(Holding(h, m))
  BY <1>1, OneMoves
<1>5. r[m] \in Int
  OBVIOUS
<1> QED BY <1>1, <1>2, <1>3, <1>4, <1>5

LEMMA BalancedDrops ==
  ASSUME NEW r \in [Inode -> Int], NEW h \in [Holder -> Inode \cup {NULL}],
         NEW x \in Holder, h[x] \in Inode
  PROVE  Balanced(r, h, Dec(r, h[x]), [h EXCEPT ![x] = NULL])
<1> DEFINE n == h[x]
           g == [h EXCEPT ![x] = NULL]
           s == Dec(r, n)
<1> SUFFICES ASSUME NEW m \in Inode
             PROVE  s[m] - Cardinality(Holding(g, m)) = r[m] - Cardinality(Holding(h, m))
  BY DEF Balanced
<1>1. g[x] = NULL /\ \A y \in Holder \ {x} : g[y] = h[y]
  OBVIOUS
<1>2. s[m] = IF m = n THEN r[m] - 1 ELSE r[m]
  BY DEF Dec
<1>3. NULL # m
  BY Distinct
<1>4. n = h[x]
  OBVIOUS
<1> HIDE DEF g, s, n
<1>5. /\ Cardinality(Holding(h, m)) \in Nat
      /\ Cardinality(Holding(g, m)) \in Nat
      /\ h[x] = m /\ g[x] # m =>
           Cardinality(Holding(g, m)) = Cardinality(Holding(h, m)) - 1
      /\ (h[x] = m <=> g[x] = m) =>
           Cardinality(Holding(g, m)) = Cardinality(Holding(h, m))
  BY <1>1, OneMoves
<1>6. r[m] \in Int
  OBVIOUS
<1> QED BY <1>1, <1>2, <1>3, <1>4, <1>5, <1>6

\* A place forgets what it holds: that inode, and no other, has one reference more
\* that nobody holds.
LEMMA ForgetsOne ==
  ASSUME NEW r \in [Inode -> Int], NEW h \in [Holder -> Inode \cup {NULL}],
         NEW x \in Holder, NEW m \in Inode
  PROVE  r[m] - Cardinality(Holding([h EXCEPT ![x] = NULL], m))
           = (r[m] - Cardinality(Holding(h, m))) + (IF h[x] = m THEN 1 ELSE 0)
<1> DEFINE g == [h EXCEPT ![x] = NULL]
<1>1. g[x] = NULL /\ \A y \in Holder \ {x} : g[y] = h[y]
  OBVIOUS
<1>2. NULL # m
  BY Distinct
<1> HIDE DEF g
<1>3. /\ Cardinality(Holding(h, m)) \in Nat
      /\ Cardinality(Holding(g, m)) \in Nat
      /\ h[x] = m /\ g[x] # m =>
           Cardinality(Holding(g, m)) = Cardinality(Holding(h, m)) - 1
      /\ (h[x] = m <=> g[x] = m) =>
           Cardinality(Holding(g, m)) = Cardinality(Holding(h, m))
  BY <1>1, OneMoves
<1>4. r[m] \in Int
  OBVIOUS
<1>5. r[m] - Cardinality(Holding(g, m))
        = (r[m] - Cardinality(Holding(h, m))) + (IF h[x] = m THEN 1 ELSE 0)
  BY <1>1, <1>2, <1>3, <1>4
<1> QED BY <1>5 DEF g

LEMMA BalancedTwice ==
  ASSUME NEW r, NEW h, NEW s, NEW g, NEW t, NEW k, Balanced(r, h, s, g), Balanced(s, g, t, k)
  PROVE  Balanced(r, h, t, k)
BY DEF Balanced

LEMMA CountsAreInt ==
  ASSUME NEW r \in [Inode -> Int], NEW n \in Inode
  PROVE  Inc(r, n) \in [Inode -> Int] /\ Dec(r, n) \in [Inode -> Int]
BY DEF Inc, Dec

LEMMA BalancedMoves ==
  ASSUME NEW r \in [Inode -> Int], NEW h \in [Holder -> Inode \cup {NULL}],
         NEW x \in Holder, h[x] \in Inode, NEW n \in Inode
  PROVE  Balanced(r, h, Dec(Inc(r, n), h[x]), [h EXCEPT ![x] = n])
<1> DEFINE g == [h EXCEPT ![x] = NULL]
           s == Dec(r, h[x])
<1>1. Balanced(r, h, s, g) /\ g[x] = NULL /\ g \in [Holder -> Inode \cup {NULL}]
  BY BalancedDrops
<1>2. s \in [Inode -> Int]
  BY CountsAreInt
<1>3. Balanced(s, g, Inc(s, n), [g EXCEPT ![x] = n])
  <2> HIDE DEF g, s
  <2> QED BY <1>1, <1>2, BalancedTakes
<1>4. [g EXCEPT ![x] = n] = [h EXCEPT ![x] = n]
  OBVIOUS
<1>5. Inc(s, n) = Dec(Inc(r, n), h[x])
  <2>1. ASSUME NEW m \in Inode PROVE Inc(s, n)[m] = Dec(Inc(r, n), h[x])[m]
    BY DEF Inc, Dec
  <2> QED BY <2>1 DEF Inc, Dec
<1> HIDE DEF g, s
<1> QED BY <1>1, <1>3, <1>4, <1>5, BalancedTwice

LEMMA BalancedHands ==
  ASSUME NEW r \in [Inode -> Int], NEW h \in [Holder -> Inode \cup {NULL}],
         NEW x \in Holder, h[x] \in Inode, NEW y \in Holder, x # y, h[y] = NULL
  PROVE  Balanced(r, h, r, [h EXCEPT ![x] = NULL, ![y] = h[x]])
<1> DEFINE n == h[x]
           g == [h EXCEPT ![x] = NULL]
           s == Dec(r, n)
<1>1. Balanced(r, h, s, g) /\ g[y] = NULL /\ g \in [Holder -> Inode \cup {NULL}]
  BY BalancedDrops
<1>2. s \in [Inode -> Int] /\ n \in Inode
  BY CountsAreInt
<1>3. Balanced(s, g, Inc(s, n), [g EXCEPT ![y] = n])
  <2> HIDE DEF g, s, n
  <2> QED BY <1>1, <1>2, BalancedTakes
<1>4. [g EXCEPT ![y] = n] = [h EXCEPT ![x] = NULL, ![y] = h[x]]
  OBVIOUS
<1>5. Inc(s, n) = r
  <2>1. ASSUME NEW m \in Inode PROVE Inc(s, n)[m] = r[m]
    BY DEF Inc, Dec
  <2> QED BY <2>1 DEF Inc, Dec
<1>6. Balanced(r, h, Inc(s, n), [g EXCEPT ![y] = n])
  <2> HIDE DEF g, s, n
  <2> QED BY <1>1, <1>3, BalancedTwice
<1> QED BY <1>4, <1>5, <1>6

\* A step that leaks nothing.
Even == Balanced(ref_count, Held, ref_count', Held')

LEMMA InvTypes ==
  ASSUME IInv
  PROVE  ref_count \in [Inode -> Int] /\ Held \in [Holder -> Inode \cup {NULL}]
BY Types

LEMMA LeakedIs ==
  ASSUME NEW n \in Inode
  PROVE  /\ Leaked(n) = ref_count[n] - Cardinality(Holding(Held, n))
         /\ Leaked(n)' = ref_count'[n] - Cardinality(Holding(Held', n))
BY DEF Leaked, Holders, Holding, Held

\* Only the call of p changes what it holds.
LEMMA CallHolds ==
  ASSUME IInv, NEW p \in Proc, NEW c, Goes(p, c), UNCHANGED <<bootfs_node, pwd, file>>
  PROVE  Held' = [Held EXCEPT ![<<"call", p>>] = c.node]
<1> DEFINE g == [Held EXCEPT ![<<"call", p>>] = c.node]
<1>1. g = [x \in Holder |-> g[x]]
  BY Types
<1>2. /\ \A n \in Devices : g[<<"vdev", n>>] = n
      /\ g[<<"boot", NULL>>] = bootfs_node'
      /\ \A f \in Files : g[<<"pwd", f>>] = pwd'[f]
      /\ \A q \in Proc : g[<<"file", q>>] = file'[q] /\ g[<<"call", q>>] = call'[q].node
  BY Types, HeldIs, Places DEF Goes
<1> HIDE DEF g
<1>3. Held' = g
  BY <1>1, <1>2, HeldBecomes
<1> QED BY <1>3 DEF g

\* What a call holds stays as it is, and so do the counts.
LEMMA EvenStays ==
  ASSUME IInv, NEW p \in Proc, NEW c, Goes(p, c), UNCHANGED <<bootfs_node, pwd, file>>,
         c.node = call[p].node, NoCounts
  PROVE  Even
<1>1. Held' = Held
  <2>1. [Held EXCEPT ![<<"call", p>>] = c.node] = Held
    BY OfProcess
  <2> QED BY <2>1, CallHolds
<1> QED BY <1>1 DEF Even, Balanced, NoCounts

LEMMA EvenTakes ==
  ASSUME IInv, NEW p \in Proc, NEW c, Goes(p, c), UNCHANGED <<bootfs_node, pwd, file>>,
         call[p].node = NULL, c.node \in Inode, Counts(Inc(ref_count, c.node))
  PROVE  Even
<1>1. Balanced(ref_count, Held, Inc(ref_count, c.node), [Held EXCEPT ![<<"call", p>>] = c.node])
  BY InvTypes, OfProcess, BalancedTakes
<1> QED BY <1>1, CallHolds DEF Even, Counts

LEMMA EvenDrops ==
  ASSUME IInv, NEW p \in Proc, NEW c, Goes(p, c), UNCHANGED <<bootfs_node, pwd, file>>,
         call[p].node \in Inode, c.node = NULL, Counts(Dec(ref_count, call[p].node))
  PROVE  Even
<1>1. Balanced(ref_count, Held, Dec(ref_count, call[p].node), [Held EXCEPT ![<<"call", p>>] = NULL])
  BY InvTypes, OfProcess, BalancedDrops
<1> QED BY <1>1, CallHolds DEF Even, Counts

\* Nobody holds anything else, and no count changes.
LEMMA EvenRests ==
  ASSUME IInv, NoCounts, UNCHANGED <<bootfs_node, pwd, file, call>>
  PROVE  Even
<1>1. Held' = Held
  <2>1. Held = [x \in Holder |-> Held[x]]
    BY Types
  <2> QED BY <2>1, HeldIs, HeldBecomes
<1> QED BY <1>1 DEF Even, Balanced, NoCounts
-----------------------------------------------------------------------------
(* The steps that lose nothing *)

LEMMA BeginsEven ==
  ASSUME IInv, NEW p \in Proc, Open(p) \/ Chdir(p) \/ SetBootfs(p)
  PROVE  Even
<1>1. /\ call[p].pc = "idle" /\ NoCounts /\ UNCHANGED <<bootfs_node, pwd, file>>
  BY DEF Open, Chdir, SetBootfs, Begins, UnchangedState
<1>2. call[p].node = NULL
  BY <1>1, OfProcess DEF CallOK
<1>3. \E c : Goes(p, c) /\ c.node = NULL
  <2>1. CASE Open(p)
    <3>1. PICK start \in Start, sub \in Subpath, flags \in Flags :
            Goes(p, [Idle EXCEPT !.pc = "lookup", !.op = "open", !.start = start,
                                 !.sub = sub, !.flags = flags])
      BY <2>1 DEF Open
    <3> DEFINE c == [Idle EXCEPT !.pc = "lookup", !.op = "open", !.start = start,
                                 !.sub = sub, !.flags = flags]
    <3>2. Goes(p, c) /\ c.node = NULL
      BY <3>1 DEF Idle
    <3> HIDE DEF c
    <3> QED BY <3>2
  <2>2. CASE Chdir(p)
    <3>1. PICK start \in Start, sub \in Subpath :
            Goes(p, [Idle EXCEPT !.pc = "lookup", !.op = "chdir", !.start = start, !.sub = sub])
      BY <2>2 DEF Chdir
    <3> DEFINE c == [Idle EXCEPT !.pc = "lookup", !.op = "chdir", !.start = start, !.sub = sub]
    <3>2. Goes(p, c) /\ c.node = NULL
      BY <3>1 DEF Idle
    <3> HIDE DEF c
    <3> QED BY <3>2
  <2>3. CASE SetBootfs(p)
    <3>1. ASSUME NEW d \in Disk \cup Char,
                 Goes(p, [Idle EXCEPT !.pc = "lookup", !.op = "bootfs", !.start = d])
          PROVE  \E c : Goes(p, c) /\ c.node = NULL
      <4> DEFINE c == [Idle EXCEPT !.pc = "lookup", !.op = "bootfs", !.start = d]
      <4>1. Goes(p, c) /\ c.node = NULL
        BY <3>1 DEF Idle
      <4> HIDE DEF c
      <4> QED BY <4>1
    <3>2. CASE Goes(p, [Idle EXCEPT !.pc = "change"])
      BY <3>2 DEF Idle
    <3> QED BY <2>3, <3>1, <3>2 DEF SetBootfs
  <2> QED BY <2>1, <2>2, <2>3
<1> QED BY <1>1, <1>2, <1>3, EvenStays

LEMMA FindsHolds ==
  ASSUME IInv, NEW p \in Proc, NEW n, NEW flags, Finds(p, n, flags)
  PROVE  \E c : Goes(p, c) /\ c.node = n
<1> DEFINE c == [call[p] EXCEPT !.pc = "found", !.node = n, !.start = "cwd", !.sub = NULL,
                                !.flags = IF flags = {"creat"} THEN {"trunc"} ELSE flags]
<1>1. c.node = n
  BY OfProcess DEF CallSet
<1>2. Goes(p, c)
  BY DEF Finds
<1> HIDE DEF c
<1> QED BY <1>1, <1>2

LEMMA GetDeviceFailsEven ==
  ASSUME IInv, NEW p \in Proc, GetDeviceFails(p)
  PROVE  Even
<1>1. /\ call[p].pc \in {"lookup", "parent"} /\ Goes(p, Idle)
      /\ NoCounts /\ UNCHANGED <<bootfs_node, pwd, file>>
  BY DEF GetDeviceFails, At, Returns, UnchangedState
<1>2. call[p].node = NULL
  BY <1>1, OfProcess DEF CallOK
<1> QED BY <1>1, <1>2, IdleIsCall, EvenStays

LEMMA GetDeviceEven ==
  ASSUME IInv, NEW p \in Proc, GetDevice(p)
  PROVE  Even
<1>1. PICK n : n = Device(p)
  OBVIOUS
<1>2. /\ call[p].pc \in {"lookup", "parent"} /\ n # NULL
      /\ Counts(Inc(ref_count, n)) /\ UNCHANGED <<bootfs_node, pwd, file>>
  BY <1>1 DEF GetDevice, At, UnchangedState
<1>3. n \in Inode /\ call[p].node = NULL
  BY <1>1, <1>2, DeviceIsGood, OfProcess DEF CallOK
<1>4. PICK c : Goes(p, c) /\ c.node = n
  BY <1>1, GetDeviceIsCall
<1> QED BY <1>2, <1>3, <1>4, EvenTakes

LEMMA GetRootEven ==
  ASSUME IInv, NEW p \in Proc, GetRoot(p)
  PROVE  Even
<1>1. PICK n \in Dirs :
        /\ n = call[p].node /\ Good(n, mounted, on_disk)
        /\ Counts(Dec(Inc(ref_count, n), n)) /\ UnchangedState
        /\ call[p].pc \in {"root", "parent root"}
        /\ Arrives(p, n, call[p].pc = "parent root")
        /\ call[p].pc = "parent root" => "creat" \in call[p].flags
  BY RootIsGood
<1>2. n \in Inode
  BY Distinct
<1>3. PICK c \in CallSet :
        Goes(p, c) /\ c.pc # "truncate" /\ c.node = n /\ CallOK(c, file[p])
  BY <1>1, <1>2, ArrivedIsCall
<1>4. Balanced(ref_count, Held, Dec(Inc(ref_count, n), n), [Held EXCEPT ![<<"call", p>>] = n])
  BY <1>1, <1>2, InvTypes, OfProcess, BalancedMoves
<1>5. Goes(p, c) /\ c.node = n /\ UNCHANGED <<bootfs_node, pwd, file>>
  BY <1>1, <1>3 DEF UnchangedState
<1>6. Held' = [Held EXCEPT ![<<"call", p>>] = n]
  BY <1>5, CallHolds
<1> QED BY <1>1, <1>4, <1>6 DEF Even, Counts

LEMMA LookupFindsEven ==
  ASSUME IInv, NEW p \in Proc, LookupFinds(p)
  PROVE  Even
<1> DEFINE n == Named(p)
           a == call[p].node
<1>1. /\ call[p].pc = "sub" /\ n \in on_disk
      /\ Counts(Dec(Inc(ref_count, n), a)) /\ UNCHANGED <<bootfs_node, pwd, file>>
      /\ Finds(p, n, call[p].flags)
  BY DEF LookupFinds, At, UnchangedState
<1>2. a \in Inode
  BY <1>1, OfProcess DEF CallOK
<1>3. n \in Inode
  BY <1>1, Distinct DEF IInv, TypeOK
<1> HIDE DEF n
<1>4. PICK c : Goes(p, c) /\ c.node = n
  BY <1>1, FindsHolds
<1>5. Balanced(ref_count, Held, Dec(Inc(ref_count, n), a), [Held EXCEPT ![<<"call", p>>] = n])
  BY <1>2, <1>3, InvTypes, OfProcess, BalancedMoves
<1>6. Held' = [Held EXCEPT ![<<"call", p>>] = n]
  BY <1>1, <1>4, CallHolds
<1> QED BY <1>1, <1>5, <1>6 DEF Even, Counts

LEMMA LookupFailsEven ==
  ASSUME IInv, NEW p \in Proc, LookupFails(p)
  PROVE  Even
<1>1. /\ call[p].pc = "sub" /\ UNCHANGED <<bootfs_node, pwd, file>>
      /\ Counts(Dec(ref_count, call[p].node))
  BY DEF LookupFails, At, UnchangedState
<1>2. call[p] \in CallSet /\ call[p].node \in Inode
  BY <1>1, OfProcess DEF CallOK
<1>3. \E c : Goes(p, c) /\ c.node = NULL
  <2>1. CASE Returns(p)
    BY <2>1, IdleIsCall DEF Returns
  <2>2. CASE Goes(p, [PathLeft(call[p]) EXCEPT !.pc = "parent", !.node = NULL])
    <3>1. PathLeft(call[p]) \in CallSet
      BY <1>2 DEF CallSet, PathLeft, Start
    <3> DEFINE c == [PathLeft(call[p]) EXCEPT !.pc = "parent", !.node = NULL]
    <3>2. Goes(p, c) /\ c.node = NULL
      BY <2>2, <3>1 DEF CallSet
    <3> HIDE DEF c
    <3> QED BY <3>2
  <2> QED BY <2>1, <2>2 DEF LookupFails
<1> QED BY <1>1, <1>2, <1>3, EvenDrops

\* vfs_open and vfs_chdir that fail behind the lookup, and the end of vfs_close and
\* vfs_getcwd.
LEMMA GivesBackEven ==
  ASSUME IInv, NEW p \in Proc, OpenFails(p) \/ Drop(p) \/ SetCurdirFails(p)
  PROVE  Even
<1>1. /\ call[p].pc \in {"found", "drop"} /\ Goes(p, Idle)
      /\ UNCHANGED <<bootfs_node, pwd, file>>
      /\ Counts(Dec(ref_count, call[p].node))
  BY DEF OpenFails, Opening, Drop, SetCurdirFails, At, Returns, UnchangedState
<1>2. call[p].node \in Inode
  BY <1>1, OfProcess DEF CallOK
<1> QED BY <1>1, <1>2, IdleIsCall, EvenDrops

LEMMA GetCurdirEven ==
  ASSUME IInv, NEW p \in Proc, GetNewBootfs(p) \/ Getcwd(p)
  PROVE  Even
<1> DEFINE n == cwd(p)
<1>1. /\ n # NULL /\ Counts(Inc(ref_count, n)) /\ UNCHANGED <<bootfs_node, pwd, file>>
      /\ call[p].pc \in {"idle", "get"}
  BY DEF GetNewBootfs, Getcwd, GetCurdir, At, Begins, UnchangedState
<1>2. n \in Inode
  BY <1>1, OfProcess, Distinct
<1>3. call[p].node = NULL
  BY <1>1, OfProcess DEF CallOK
<1>4. \E c : Goes(p, c) /\ c.node = n
  <2>1. PICK pc \in {"change", "drop"} : Goes(p, [[Idle EXCEPT !.pc = pc] EXCEPT !.node = n])
    BY DEF GetNewBootfs, Getcwd, GetCurdir
  <2> HIDE DEF n
  <2> DEFINE c == [[Idle EXCEPT !.pc = pc] EXCEPT !.node = n]
  <2>2. Goes(p, c) /\ c.node = n
    BY <2>1 DEF Idle
  <2> HIDE DEF c
  <2> QED BY <2>2
<1> HIDE DEF n
<1> QED BY <1>1, <1>2, <1>3, <1>4, EvenTakes

LEMMA NoBootfsEven ==
  ASSUME IInv, NEW p \in Proc, NoBootfs(p)
  PROVE  Even
<1>1. /\ call[p].pc = "get" /\ Goes(p, Idle) /\ NoCounts
      /\ UNCHANGED <<bootfs_node, pwd, file>>
  BY DEF NoBootfs, At, Returns, UnchangedState
<1>2. call[p].node = NULL
  BY <1>1, OfProcess DEF CallOK
<1> QED BY <1>1, <1>2, IdleIsCall, EvenStays

\* The reference of the call becomes that of the open file.
LEMMA ToFileEven ==
  ASSUME IInv, NEW p \in Proc, call[p].node \in Inode, file[p] = NULL,
         Goes(p, Idle), file' = [file EXCEPT ![p] = call[p].node],
         NoCounts, UNCHANGED <<bootfs_node, pwd>>
  PROVE  Even
<1> DEFINE x == <<"call", p>>
           y == <<"file", p>>
           n == call[p].node
           g == [Held EXCEPT ![x] = NULL, ![y] = n]
<1>1. /\ x \in Holder /\ y \in Holder /\ x # y /\ Held[x] = n /\ Held[y] = NULL
  BY Places, HeldIs
<1>2. Balanced(ref_count, Held, ref_count, [Held EXCEPT ![x] = NULL, ![y] = Held[x]])
  <2> HIDE DEF x, y
  <2> QED BY <1>1, InvTypes, BalancedHands
<1>3. Balanced(ref_count, Held, ref_count, g)
  BY <1>1, <1>2
<1>4. g = [z \in Holder |-> g[z]]
  BY Types
<1>5. /\ \A m \in Devices : g[<<"vdev", m>>] = m
      /\ g[<<"boot", NULL>>] = bootfs_node'
      /\ \A f \in Files : g[<<"pwd", f>>] = pwd'[f]
      /\ \A q \in Proc : g[<<"file", q>>] = file'[q] /\ g[<<"call", q>>] = call'[q].node
  BY Types, HeldIs, Places, IdleIsCall DEF Goes
<1> HIDE DEF g
<1>6. Held' = g
  BY <1>4, <1>5, HeldBecomes
<1> QED BY <1>3, <1>6 DEF Even, NoCounts

LEMMA OpenedEven ==
  ASSUME IInv, NEW p \in Proc, Opened(p)
  PROVE  Even
<1>1. /\ call[p].pc = "found" /\ call[p].op = "open"
      /\ NoCounts /\ UNCHANGED <<bootfs_node, pwd>>
  BY DEF Opened, Opening, At
<1>2. call[p].node \in Inode /\ file[p] = NULL /\ call[p] \in CallSet
  BY <1>1, OfProcess DEF CallOK
<1>3. CASE Goes(p, [call[p] EXCEPT !.pc = "truncate"]) /\ UNCHANGED file
  <2> DEFINE c == [call[p] EXCEPT !.pc = "truncate"]
  <2>1. c.node = call[p].node
    BY <1>2 DEF CallSet
  <2> HIDE DEF c
  <2>2. Goes(p, c)
    BY <1>3 DEF c
  <2> QED BY <1>1, <1>3, <2>1, <2>2, EvenStays
<1>4. CASE Returns(p) /\ file' = [file EXCEPT ![p] = call[p].node]
  BY <1>1, <1>2, <1>4, ToFileEven DEF Returns
<1> QED BY <1>3, <1>4 DEF Opened

LEMMA TruncateEven ==
  ASSUME IInv, NEW p \in Proc, Truncate(p)
  PROVE  Even
<1>1. PICK n : n = call[p].node
  OBVIOUS
<1>2. call[p].pc = "truncate" /\ NoCounts /\ UNCHANGED <<bootfs_node, pwd>>
  BY DEF Truncate, At
<1>3. n \in Inode /\ file[p] = NULL
  BY <1>1, <1>2, OfProcess DEF CallOK
<1>4. CASE file' = [file EXCEPT ![p] = n] /\ Returns(p)
  BY <1>1, <1>2, <1>3, <1>4, ToFileEven DEF Returns
<1>5. CASE Goes(p, [Idle EXCEPT !.pc = "drop", !.node = n]) /\ UNCHANGED file
  <2> DEFINE c == [Idle EXCEPT !.pc = "drop", !.node = n]
  <2>1. c.node = call[p].node
    BY <1>1 DEF Idle
  <2>2. Goes(p, c)
    BY <1>5
  <2> HIDE DEF c
  <2> QED BY <1>2, <1>5, <2>1, <2>2, EvenStays
<1> QED BY <1>1, <1>4, <1>5 DEF Truncate

\* The reference of the open file becomes that of the call, which drops it.
LEMMA CloseEven ==
  ASSUME IInv, NEW p \in Proc, Close(p)
  PROVE  Even
<1> DEFINE x == <<"file", p>>
           y == <<"call", p>>
           n == file[p]
           g == [Held EXCEPT ![x] = NULL, ![y] = n]
<1>1. /\ call[p].pc = "idle" /\ n # NULL /\ file' = [file EXCEPT ![p] = NULL]
      /\ Goes(p, [Idle EXCEPT !.pc = "drop", !.node = n])
      /\ NoCounts /\ UNCHANGED <<bootfs_node, pwd>>
  BY DEF Close, Begins
<1>2. n \in Inode /\ call[p].node = NULL
  BY <1>1, OfProcess DEF CallOK
<1>3. x \in Holder /\ y \in Holder /\ x # y /\ Held[x] = n /\ Held[y] = NULL
  BY <1>2, Places, HeldIs
<1>4. Balanced(ref_count, Held, ref_count, [Held EXCEPT ![x] = NULL, ![y] = Held[x]])
  <2> HIDE DEF x, y, n
  <2> QED BY <1>2, <1>3, InvTypes, BalancedHands
<1>5. Balanced(ref_count, Held, ref_count, g)
  BY <1>3, <1>4
<1>6. PICK c : Goes(p, c) /\ c.node = n
  <2> DEFINE c == [Idle EXCEPT !.pc = "drop", !.node = n]
  <2>1. Goes(p, c) /\ c.node = n
    BY <1>1 DEF Idle
  <2> HIDE DEF c
  <2> QED BY <2>1
<1>7. g = [z \in Holder |-> g[z]]
  BY Types
<1>8. /\ \A m \in Devices : g[<<"vdev", m>>] = m
      /\ g[<<"boot", NULL>>] = bootfs_node'
      /\ \A f \in Files : g[<<"pwd", f>>] = pwd'[f]
      /\ \A q \in Proc : g[<<"file", q>>] = file'[q] /\ g[<<"call", q>>] = call'[q].node
  BY <1>1, <1>6, Types, HeldIs, Places DEF Goes
<1> HIDE DEF g
<1>9. Held' = g
  BY <1>7, <1>8, HeldBecomes
<1> QED BY <1>1, <1>5, <1>9 DEF Even, NoCounts

LEMMA SetCurdirEven ==
  ASSUME IInv, NEW p \in Proc, SetCurdir(p)
  PROVE  Even
<1> DEFINE x == <<"pwd", filesp(p)>>
           y == <<"call", p>>
           n == call[p].node
<1>1. /\ call[p].pc = "found" /\ UNCHANGED <<bootfs_node, file>>
      /\ cwd(p) # n => /\ pwd' = [pwd EXCEPT ![filesp(p)] = n]
                       /\ Counts(Dec(Entered(cwd(p), n), n))
      /\ cwd(p) = n => UNCHANGED pwd /\ Counts(Dec(ref_count, n))
  BY DEF SetCurdir, At
<1>2. PICK c : Goes(p, c) /\ c.node = NULL
  <2>1. CASE Returns(p)
    BY <2>1, IdleIsCall DEF Returns
  <2>2. CASE Goes(p, [Idle EXCEPT !.pc = "get"])
    BY <2>2 DEF Idle
  <2> QED BY <2>1, <2>2 DEF SetCurdir
<1>3. n \in Inode
  BY <1>1, OfProcess DEF CallOK
<1>4. CASE cwd(p) = n
  BY <1>1, <1>2, <1>3, <1>4, EvenDrops
<1>5. CASE cwd(p) # n
  <2> DEFINE g == [Held EXCEPT ![x] = n]
             g2 == [g EXCEPT ![y] = NULL]
             r == Entered(cwd(p), n)
  <2>1. /\ x \in Holder /\ Held[x] = cwd(p) /\ x # y /\ y \in Holder /\ Held[y] = n
        /\ cwd(p) \in Dirs \cup {NULL}
    BY OfProcess, Places, HeldIs DEF cwd
  <2>2. Balanced(ref_count, Held, r, g) /\ r \in [Inode -> Int]
    <3>1. CASE cwd(p) = NULL
      <4>1. Balanced(ref_count, Held, Inc(ref_count, n), g)
        <5> HIDE DEF x, n
        <5> QED BY <3>1, <1>3, <2>1, InvTypes, BalancedTakes
      <4>2. r = Inc(ref_count, n)
        BY <3>1 DEF Entered
      <4> HIDE DEF g, n, r
      <4> QED BY <4>1, <4>2, <1>3, InvTypes, CountsAreInt
    <3>2. CASE cwd(p) # NULL
      <4>1. Held[x] \in Inode
        BY <3>2, <2>1, Distinct
      <4>2. Balanced(ref_count, Held, Dec(Inc(ref_count, n), Held[x]), g)
        <5> HIDE DEF x, n
        <5> QED BY <4>1, <1>3, <2>1, InvTypes, BalancedMoves
      <4>3. r = Dec(Inc(ref_count, n), Held[x])
        BY <3>2, <2>1 DEF Entered
      <4>4. Inc(ref_count, n) \in [Inode -> Int]
        <5> HIDE DEF n
        <5> QED BY <1>3, InvTypes, CountsAreInt
      <4> HIDE DEF g, n, r, x
      <4> QED BY <4>1, <4>2, <4>3, <4>4, CountsAreInt
    <3> QED BY <3>1, <3>2
  <2>3. g \in [Holder -> Inode \cup {NULL}] /\ g[y] = n
    BY <1>3, <2>1, InvTypes
  <2>4. Balanced(r, g, Dec(r, n), g2)
    <3>1. Balanced(r, g, Dec(r, g[y]), [g EXCEPT ![y] = NULL])
      <4>1. g[y] \in Inode
        BY <1>3, <2>3
      <4> HIDE DEF g, r, y
      <4> QED BY <4>1, <2>1, <2>2, <2>3, BalancedDrops
    <3> QED BY <3>1, <2>3
  <2>5. Balanced(ref_count, Held, Dec(r, n), g2)
    <3> HIDE DEF g, g2, r, n
    <3> QED BY <2>2, <2>4, BalancedTwice
  <2>6. g2 = [z \in Holder |-> g2[z]]
    BY Types
  <2>7. /\ \A m \in Devices : g2[<<"vdev", m>>] = m
        /\ g2[<<"boot", NULL>>] = bootfs_node'
        /\ \A f \in Files : g2[<<"pwd", f>>] = pwd'[f]
        /\ \A q \in Proc : g2[<<"file", q>>] = file'[q] /\ g2[<<"call", q>>] = call'[q].node
    BY <1>1, <1>2, <1>5, Types, HeldIs, Places, OfProcess DEF Goes
  <2> HIDE DEF g2
  <2>8. Held' = g2
    BY <2>6, <2>7, HeldBecomes
  <2> QED BY <1>1, <1>5, <2>5, <2>8 DEF Even, Counts
<1> QED BY <1>4, <1>5

LEMMA LeaveDirEven ==
  ASSUME IInv, NEW p \in Proc, LeaveDir(p)
  PROVE  Even
<1> DEFINE x == <<"pwd", filesp(p)>>
           g == [Held EXCEPT ![x] = NULL]
<1>1. /\ cwd(p) # NULL /\ pwd' = [pwd EXCEPT ![filesp(p)] = NULL]
      /\ Counts(Dec(ref_count, cwd(p))) /\ UNCHANGED <<bootfs_node, file, call>>
  BY DEF LeaveDir
<1>2. x \in Holder /\ Held[x] = cwd(p) /\ Held[x] \in Inode
  BY <1>1, OfProcess, Places, HeldIs, Distinct DEF cwd
<1>3. Balanced(ref_count, Held, Dec(ref_count, Held[x]), g)
  <2> HIDE DEF x
  <2> QED BY <1>2, InvTypes, BalancedDrops
<1>4. g = [z \in Holder |-> g[z]]
  BY Types
<1>5. /\ \A m \in Devices : g[<<"vdev", m>>] = m
      /\ g[<<"boot", NULL>>] = bootfs_node'
      /\ \A f \in Files : g[<<"pwd", f>>] = pwd'[f]
      /\ \A q \in Proc : g[<<"file", q>>] = file'[q] /\ g[<<"call", q>>] = call'[q].node
  BY <1>1, Types, HeldIs, Places, OfProcess
<1> HIDE DEF g
<1>6. Held' = g
  BY <1>4, <1>5, HeldBecomes
<1> QED BY <1>1, <1>2, <1>3, <1>6 DEF Even, Counts

LEMMA ChangeBootfsEven ==
  ASSUME IInv, NEW p \in Proc, ChangeBootfs(p)
  PROVE  Even
<1> DEFINE x == <<"boot", NULL>>
           y == <<"call", p>>
           n == call[p].node
           g == [Held EXCEPT ![x] = NULL]
           g2 == [g EXCEPT ![y] = NULL, ![x] = n]
           r == DropOld(bootfs_node)
<1>1. /\ call[p].pc = "change" /\ bootfs_node' = n /\ Counts(r)
      /\ Goes(p, Idle) /\ UNCHANGED <<pwd, file>>
  BY DEF ChangeBootfs, At, Returns
<1>2. n \in Dirs \cup {NULL}
  BY <1>1, OfProcess DEF CallOK
<1>3. /\ x \in Holder /\ Held[x] = bootfs_node /\ x # y /\ y \in Holder /\ Held[y] = n
  BY OfProcess, Places, HeldIs
<1>4. g[x] = NULL /\ g[y] = n /\ g \in [Holder -> Inode \cup {NULL}]
  BY <1>3, Types
<1>5. Balanced(ref_count, Held, r, g) /\ r \in [Inode -> Int]
  <2>1. CASE bootfs_node = NULL
    <3>1. g = Held /\ r = ref_count
      BY <2>1, <1>3, Types DEF DropOld
    <3> QED BY <3>1, InvTypes DEF Balanced
  <2>2. CASE bootfs_node # NULL
    <3>1. Held[x] \in Inode
      BY <2>2, <1>3, Types, Distinct
    <3>2. Balanced(ref_count, Held, Dec(ref_count, Held[x]), g)
      <4> HIDE DEF x
      <4> QED BY <3>1, <1>3, InvTypes, BalancedDrops
    <3>3. r = Dec(ref_count, Held[x])
      BY <2>2, <1>3 DEF DropOld
    <3> HIDE DEF g, r, x
    <3> QED BY <3>1, <3>2, <3>3, InvTypes, CountsAreInt
  <2> QED BY <2>1, <2>2
<1>6. Balanced(r, g, r, g2)
  <2>1. CASE n = NULL
    <3>1. g2 = g
      BY <2>1, <1>3, <1>4
    <3> QED BY <3>1 DEF Balanced
  <2>2. CASE n # NULL
    <3>1. g[y] \in Inode
      BY <2>2, <1>2, <1>4, Distinct
    <3>2. Balanced(r, g, r, [g EXCEPT ![y] = NULL, ![x] = g[y]])
      <4> HIDE DEF g, r, x, y
      <4> QED BY <3>1, <1>3, <1>4, <1>5, BalancedHands
    <3> QED BY <3>2, <1>4
  <2> QED BY <2>1, <2>2
<1>7. Balanced(ref_count, Held, r, g2)
  <2> HIDE DEF g, g2, r
  <2> QED BY <1>5, <1>6, BalancedTwice
<1>8. g2 = [z \in Holder |-> g2[z]]
  BY Types
<1>9. /\ \A m \in Devices : g2[<<"vdev", m>>] = m
      /\ g2[<<"boot", NULL>>] = bootfs_node'
      /\ \A f \in Files : g2[<<"pwd", f>>] = pwd'[f]
      /\ \A q \in Proc : g2[<<"file", q>>] = file'[q] /\ g2[<<"call", q>>] = call'[q].node
  BY <1>1, IdleIsCall, Types, HeldIs, Places, OfProcess DEF Goes
<1> HIDE DEF g2, r
<1>10. Held' = g2
  BY <1>8, <1>9, HeldBecomes
<1> QED BY <1>1, <1>7, <1>10 DEF Even, Counts
-----------------------------------------------------------------------------
(* The two steps that do *)

\* vfs_open of a file that exists, with O_EXCL: the reference of the lookup is lost.
LEMMA ExistsLeaks ==
  ASSUME IInv, NEW p \in Proc, Exists(p), NEW m \in Inode, Leaked(m)' # Leaked(m)
  PROVE  /\ Leaked(m)' = Leaked(m) + 1
         /\ call[p].op = "open" /\ "creat" \in call[p].flags
         /\ call[p].node = m /\ call'[p].node # m
         /\ "excl" \in call[p].flags
<1> DEFINE x == <<"call", p>>
<1>1. /\ call[p].op = "open" /\ "excl" \in call[p].flags /\ Goes(p, Idle) /\ NoCounts
      /\ UNCHANGED <<bootfs_node, pwd, file>>
  BY DEF Exists, At, Returns, UnchangedState
<1>2. "creat" \in call[p].flags
  BY <1>1, OfProcess DEF CallSet, Flags
<1>3. Held' = [Held EXCEPT ![x] = NULL]
  BY <1>1, CallHolds, IdleIsCall
<1>4. ref_count[m] - Cardinality(Holding(Held', m))
        = (ref_count[m] - Cardinality(Holding(Held, m))) + (IF Held[x] = m THEN 1 ELSE 0)
  <2>1. ref_count \in [Inode -> Int] /\ Held \in [Holder -> Inode \cup {NULL}] /\ x \in Holder
    BY InvTypes, OfProcess
  <2> HIDE DEF x
  <2>2. ref_count[m] - Cardinality(Holding([Held EXCEPT ![x] = NULL], m))
          = (ref_count[m] - Cardinality(Holding(Held, m))) + (IF Held[x] = m THEN 1 ELSE 0)
    BY ONLY <2>1, m \in Inode, ForgetsOne
  <2> QED BY <1>3, <2>2
<1>5. /\ ref_count[m] \in Int
      /\ Cardinality(Holding(Held, m)) \in Nat
  BY InvTypes, HolderFinite, FS_Subset, FS_CardinalityType DEF Holding
<1>6. Leaked(m)' = Leaked(m) + (IF Held[x] = m THEN 1 ELSE 0)
  BY <1>1, <1>4, LeakedIs DEF NoCounts
<1>7. Leaked(m) \in Int
  BY <1>5, LeakedIs
<1>8. Held[x] = m
  BY <1>6, <1>7
<1>9. call[p].node = m
  BY <1>8, OfProcess
<1>10. call'[p].node # m
  BY <1>1, IdleIsCall, Types, Distinct DEF Goes
<1> QED BY <1>1, <1>2, <1>6, <1>8, <1>9, <1>10

\* vfs_open that makes the file: the reference on its directory is lost.
LEMMA CreateLeaks ==
  ASSUME IInv, NEW p \in Proc, Create(p), NEW m \in Inode, Leaked(m)' # Leaked(m)
  PROVE  /\ Leaked(m)' = Leaked(m) + 1
         /\ call[p].op = "open" /\ "creat" \in call[p].flags
         /\ call[p].node = m /\ call'[p].node # m
         /\ m \in Dirs
<1> DEFINE x == <<"call", p>>
           n == Named(p)
           d == call[p].node
           g == [Held EXCEPT ![x] = NULL]
           g2 == [g EXCEPT ![x] = n]
<1>1. /\ call[p].pc = "create" /\ call[p].sub # NULL /\ Counts(Inc(ref_count, n))
      /\ Finds(p, n, {"creat"}) /\ UNCHANGED <<bootfs_node, pwd, file>>
  BY DEF Create, At
<1>2. call[p] \in CallSet /\ d \in Dirs /\ call[p].op = "open" /\ "creat" \in call[p].flags
  BY <1>1, OfProcess DEF CallOK
<1>3. n \in Regular
  BY <1>1, <1>2, NamedIs
<1>4. n \in Inode /\ n # d
  BY <1>2, <1>3, Distinct
<1>5. x \in Holder /\ Held[x] = d
  BY OfProcess
<1> HIDE DEF n, d
<1>6. PICK c : Goes(p, c) /\ c.node = n
  BY <1>1, FindsHolds
<1>7. Held' = g2
  <2>1. g2 = [Held EXCEPT ![x] = n]
    BY InvTypes
  <2> QED BY <2>1, <1>1, <1>6, CallHolds
<1>8. ref_count[m] - Cardinality(Holding(g, m))
        = (ref_count[m] - Cardinality(Holding(Held, m))) + (IF Held[x] = m THEN 1 ELSE 0)
  BY <1>5, InvTypes, ForgetsOne
<1>9. Balanced(ref_count, g, Inc(ref_count, n), g2)
  <2>1. g[x] = NULL /\ g \in [Holder -> Inode \cup {NULL}]
    BY <1>5, InvTypes
  <2> HIDE DEF g, x
  <2> QED BY <2>1, <1>4, <1>5, InvTypes, BalancedTakes
<1>10. Inc(ref_count, n)[m] - Cardinality(Holding(g2, m))
         = ref_count[m] - Cardinality(Holding(g, m))
  BY <1>9 DEF Balanced
<1>11. ref_count' = Inc(ref_count, n)
  BY <1>1 DEF Counts
<1> HIDE DEF g, g2, x
<1>12. Leaked(m)' = Leaked(m) + (IF Held[x] = m THEN 1 ELSE 0)
  BY <1>7, <1>8, <1>10, <1>11, LeakedIs
<1>13. Leaked(m) \in Int
  <2>1. ref_count[m] \in Int /\ Cardinality(Holding(Held, m)) \in Nat
    BY InvTypes, HolderFinite, FS_Subset, FS_CardinalityType DEF Holding
  <2> QED BY <2>1, LeakedIs
<1>14. Held[x] = m
  BY <1>12, <1>13
<1>15. d = m /\ call'[p].node # m
  <2>1. call'[p].node = n
    BY <1>6, Types DEF Goes
  <2> QED BY <2>1, <1>4, <1>5, <1>14
<1> QED BY <1>2, <1>12, <1>14, <1>15 DEF d

\* Every other step gives back what it takes, and keeps what it gives.
LEMMA OthersEven ==
  ASSUME IInv, [Next]_vars, \A p \in Proc : ~ Exists(p) /\ ~ Create(p)
  PROVE  Even
<1>1. ASSUME NEW p \in Proc,
             \/ Open(p) \/ Chdir(p) \/ SetBootfs(p) \/ Close(p) \/ Drop(p)
             \/ Lookup(p) \/ OpenStep(p) \/ DirStep(p)
      PROVE  Even
  <2>1. CASE Open(p) \/ Chdir(p) \/ SetBootfs(p) \/ Close(p) \/ Drop(p)
    BY <2>1, BeginsEven, CloseEven, GivesBackEven
  <2>2. CASE Lookup(p)
    BY <2>2, GetDeviceFailsEven, GetDeviceEven, GetRootEven, LookupFindsEven,
       LookupFailsEven DEF Lookup
  <2>3. CASE OpenStep(p)
    <3>1. CASE CreateFails(p)
      <4>1. UNCHANGED <<ref_count, call, bootfs_node, pwd, file>>
        BY <3>1 DEF CreateFails, UnchangedState
      <4>2. Held' = Held
        <5>1. Held = [x \in Holder |-> Held[x]]
          BY Types
        <5> QED BY <4>1, <5>1, HeldIs, HeldBecomes
      <4> QED BY <4>1, <4>2 DEF Even, Balanced
    <3>2. CASE OpenFails(p) \/ Opened(p) \/ Truncate(p)
      BY <3>2, GivesBackEven, OpenedEven, TruncateEven
    <3> QED BY <2>3, <3>1, <3>2 DEF OpenStep
  <2>4. CASE DirStep(p)
    BY <2>4, SetCurdirEven, GivesBackEven, LeaveDirEven, GetCurdirEven, NoBootfsEven,
       ChangeBootfsEven DEF DirStep
  <2> QED BY <1>1, <2>1, <2>2, <2>3, <2>4
<1>2. CASE UNCHANGED vars
  BY <1>2, EvenRests DEF vars, NoCounts
<1>3. ASSUME NEW d \in Disk, Mount(d) PROVE Even
  BY <1>3, EvenRests DEF Mount
<1>4. ASSUME NEW D \in SUBSET Disk, Unmount(D) PROVE Even
  BY <1>4, EvenRests DEF Unmount
<1>5. CASE Stopped
  BY <1>5, EvenRests DEF Stopped, vars, NoCounts
<1> QED BY <1>1, <1>2, <1>3, <1>4, <1>5 DEF Next

\* What a step may lose: in vfs_open the directory of a new file keeps the reference of
\* vfs_lookup_parent, and a file that O_EXCL refuses keeps that of vfs_lookup; no other
\* path through kern/fs/vfs, whether it fails or not, loses or steals one.
THEOREM OnlyCreationLeaks == Spec => OnlyCreateLeaks
<1> DEFINE Step == \A n \in Inode :
              Leaked(n)' # Leaked(n) =>
                /\ Leaked(n)' = Leaked(n) + 1
                /\ \E p \in Proc :
                     /\ call[p].op = "open" /\ "creat" \in call[p].flags
                     /\ call[p].node = n /\ call'[p].node # n
                     /\ n \in Dirs \/ "excl" \in call[p].flags
<1>1. Init => IInv
  BY InitHolds
<1>2. IInv /\ [Next]_vars => IInv'
  BY StepsKeep
<1>3. IInv /\ [Next]_vars => Step
  <2> SUFFICES ASSUME IInv, [Next]_vars PROVE Step
    OBVIOUS
  <2>1. ASSUME NEW p \in Proc, Exists(p) PROVE Step
    BY <2>1, ExistsLeaks
  <2>2. ASSUME NEW p \in Proc, Create(p) PROVE Step
    BY <2>2, CreateLeaks
  <2>3. CASE \A p \in Proc : ~ Exists(p) /\ ~ Create(p)
    <3>1. Even
      BY <2>3, OthersEven
    <3>2. \A n \in Inode : Leaked(n)' = Leaked(n)
      BY <3>1, LeakedIs DEF Even, Balanced
    <3> QED BY <3>2
  <2> QED BY <2>1, <2>2, <2>3
<1>4. IInv /\ [Next]_vars => [Step]_vars
  BY <1>3
<1> QED BY <1>1, <1>2, <1>4, PTL DEF Spec, OnlyCreateLeaks
=============================================================================
