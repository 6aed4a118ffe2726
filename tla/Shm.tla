--------------------------------- MODULE Shm ---------------------------------
(***************************************************************************)
(* ztl_shm.c on Linux: named shared memory of several processes.  A name   *)
(* with a directory is a mapped file, one without is made by shm_open, or, *)
(* with huge pages, a System V segment.  ipc is the operating system's     *)
(* side and the ztl_shm_t of each handle; relied what callers rely on.     *)
(*                                                                         *)
(* Left out: anonymous memory, which nobody shares (without huge pages the *)
(* code maps descriptor 0), huge pages as such, and msync.                 *)
(***************************************************************************)
EXTENDS Integers

CONSTANTS ShmHandles,   \* handles, [proc, id]: a process may have several
          FileNames, PlainNames, SegNames,
          Uses,         \* what callers do: [handles, sizes], the handles they open
                        \* and the sizes they give to ztl_shm_truncate
          Objects       \* numbers of the objects of the operating system

\* A name is of one kind, and neither a name nor a process is called nobody.
ASSUME ShmAssumption ==
    /\ Objects \subseteq Nat \ {0}
    /\ SegNames \cap (FileNames \cup PlainNames) = {}
    /\ "nobody" \notin FileNames \cup PlainNames \cup SegNames
    /\ \A h \in ShmHandles : h.proc # "nobody"
    /\ \A use \in Uses : use.handles \subseteq ShmHandles /\ use.sizes \subseteq Nat

VARIABLES ipc, relied

shmVars == <<ipc, relied>>

Nobody == "nobody"
Missing == 0            \* no object, no mapping, or the 0 a new ztl_shm_t is filled with
INVALID_HANDLE_VALUE == -1
Unsized == -1           \* of an object: nobody gave it a size, or callers gave
Differently == -2       \* more than one

\* get_key_from_file has moved its pointer behind the name when it calls
\* ftok, which fails: every segment has the key -1.
Key(name) == IF name \in SegNames THEN "-1" ELSE name
Entries == {Key(name) : name \in FileNames \cup PlainNames \cup SegNames}

Closed == [name |-> Nobody, how |-> "open_only", fd |-> Missing, size |-> 0, addr |-> Missing, len |-> 0]
Opened(h) == ipc.shm[h].name # Nobody
IsSegment(h) == ipc.shm[h].name \in SegNames

\* One kind of name per behaviour: the kinds never meet.
ShmInit ==
    \E names \in {FileNames, PlainNames, SegNames}, use \in Uses :
        /\ ipc = [names |-> names, use |-> use, entry |-> [e \in Entries |-> Missing], len |-> [o \in Objects |-> 0],
                  locked |-> [o \in Objects |-> Nobody], shm |-> [h \in ShmHandles |-> Closed]]
        /\ relied = [held |-> {}, sized |-> [o \in Objects |-> Unsized], unnamed |-> {}, dropped |-> FALSE]

(***************************************************************************)
(* The operating system (external).                                        *)
(***************************************************************************)
InUse(o) == \/ \E e \in Entries : ipc.entry[e] = o
            \/ \E h \in ShmHandles : ipc.shm[h].fd = o \/ ipc.shm[h].addr = o
NewObject == CHOOSE o \in Objects : ~InUse(o)
CanMake == \E o \in Objects : ~InUse(o)
\* Closing one descriptor drops every lock the process has on the file.
Close(s, h) ==
    [s EXCEPT !.locked = [o \in Objects |-> IF o = s.shm[h].fd /\ @[o] = h.proc THEN Nobody ELSE @[o]],
                !.shm[h] = Closed]
Unlink(s, e) == [s EXCEPT !.entry[e] = Missing]

(***************************************************************************)
(* ztl_shm_create and ztl_shm_segment_create.                              *)
(***************************************************************************)
_PrivOpenOrCreate(h, new) ==
    LET there == ipc.entry[new.name] IN
    \/ /\ there # Missing
       /\ ipc' = [ipc EXCEPT !.shm[h] = [new EXCEPT !.fd = there]] /\ UNCHANGED relied
    \/ /\ there = Missing /\ new.how = "open_only"
       /\ ipc' = [ipc EXCEPT !.shm[h] = [new EXCEPT !.fd = INVALID_HANDLE_VALUE]] /\ UNCHANGED relied
    \/ /\ there = Missing /\ new.how # "open_only" /\ CanMake
       /\ ipc' = [ipc EXCEPT !.entry[new.name] = NewObject, !.len[NewObject] = 0,
                             !.locked[NewObject] = Nobody, !.shm[h] = [new EXCEPT !.fd = NewObject]]
       /\ relied' = [relied EXCEPT !.sized[NewObject] = Unsized, !.unnamed = @ \ {NewObject}]
ztl_shm_create(h, name, how) ==
    LET new == [Closed EXCEPT !.name = name, !.how = how] IN
    /\ ~Opened(h) /\ name \in ipc.names
    /\ \/ name \in SegNames /\ ipc' = [ipc EXCEPT !.shm[h] = new] /\ UNCHANGED relied    \* no system call yet
       \/ name \notin SegNames /\ _PrivOpenOrCreate(h, new)

\* Size 0 asks for the size of the file; stat does not find a name of
\* shm_open, and 0 it stays.
Wanted(h, size) ==
    LET z == ipc.shm[h]
        file == ipc.entry[z.name]
    IN IF size = 0 /\ z.name \in FileNames /\ file # Missing THEN ipc.len[file] ELSE size
Agreed(was, size) == IF was \in {Unsized, size} THEN size ELSE Differently
\* Variant: the size is noted, the object not resized.
ztl_shm_truncate_NoResize(h, size) ==
    /\ Opened(h) /\ ipc' = [ipc EXCEPT !.shm[h].size = size]
    /\ relied' = IF ipc.shm[h].fd \notin Objects THEN relied
                 ELSE [relied EXCEPT !.sized[ipc.shm[h].fd] = Agreed(@, size)]
ztl_shm_truncate(h, size) ==
    LET z == ipc.shm[h]
        new == IF IsSegment(h) THEN size ELSE Wanted(h, size)
        resizes == ~IsSegment(h) /\ z.how # "open_only"
    IN /\ Opened(h)
       /\ resizes => z.fd \in Objects       \* else ftruncate fails
       /\ ipc' = [ipc EXCEPT !.shm[h].size = new, !.len = IF resizes THEN [@ EXCEPT ![z.fd] = new] ELSE @]
       /\ relied' = IF resizes THEN [relied EXCEPT !.sized[z.fd] = Agreed(@, new)] ELSE relied

(***************************************************************************)
(* ztl_shm_map_region.                                                     *)
(***************************************************************************)
MapFile(h, write) ==
    LET z == ipc.shm[h] IN
    /\ Opened(h) /\ ~IsSegment(h) /\ z.addr = Missing
    /\ z.fd # INVALID_HANDLE_VALUE
    /\ z.size > 0 /\ ~(write /\ z.how = "open_only")     \* else mmap fails
    /\ ipc' = [ipc EXCEPT !.shm[h].addr = z.fd, !.shm[h].len = z.size]
    /\ UNCHANGED relied
\* shmget makes the segment, or finds the one there is if it is large enough.
MapSegment(h) ==
    LET z == ipc.shm[h]
        there == ipc.entry[Key(z.name)]
        attached(o, len) == [z EXCEPT !.fd = o, !.addr = o, !.len = len]
    IN /\ Opened(h) /\ IsSegment(h) /\ z.addr = Missing
       /\ \/ /\ there # Missing /\ z.size <= ipc.len[there]
             /\ ipc' = [ipc EXCEPT !.shm[h] = attached(there, ipc.len[there])] /\ UNCHANGED relied
          \/ /\ there = Missing /\ z.how # "open_only" /\ z.size > 0 /\ CanMake
             /\ ipc' = [ipc EXCEPT !.entry[Key(z.name)] = NewObject, !.len[NewObject] = z.size,
                                   !.locked[NewObject] = Nobody, !.shm[h] = attached(NewObject, z.size)]
             /\ relied' = [relied EXCEPT !.sized[NewObject] = Unsized, !.unnamed = @ \ {NewObject}]
          \/ /\ IF there = Missing THEN z.how = "open_only" \/ z.size = 0 ELSE z.size > ipc.len[there]
             /\ ipc' = [ipc EXCEPT !.shm[h].fd = INVALID_HANDLE_VALUE] /\ UNCHANGED relied

ztl_shm_detach(h) ==
    /\ Opened(h) /\ ipc.shm[h].addr # Missing
    /\ ipc' = [ipc EXCEPT !.shm[h].addr = Missing, !.shm[h].len = 0]
    /\ UNCHANGED relied

\* The lock of a process goes with any of its handles on the object.
Believes(p, o) == {h \in relied.held : h.proc = p /\ ipc.shm[h].fd = o}
Forgotten(hs, o, p) == [relied EXCEPT !.held = @ \ hs, !.dropped = @ \/ Believes(p, o) \ hs # {}]

\* Closes the descriptor; a segment is removed, whoever else uses it.  A
\* segment that was never mapped has handle 0, which may be anybody's.
ReleaseFile(h) ==
    /\ Opened(h) /\ ~IsSegment(h)
    /\ ipc' = Close(ipc, h)
    /\ relied' = Forgotten({h}, ipc.shm[h].fd, h.proc)
ReleaseSegment(h) ==
    LET there == ipc.entry[Key(ipc.shm[h].name)]
        closed == Close(ipc, h)
    IN /\ Opened(h) /\ IsSegment(h)
       /\ \/ /\ there # Missing /\ ipc.shm[h].fd \in {there, Missing}
             /\ ipc' = Unlink(closed, Key(ipc.shm[h].name))
             /\ relied' = [relied EXCEPT !.unnamed = @ \cup {there}]
          \/ ipc.shm[h].fd # there /\ ipc' = closed /\ UNCHANGED relied

\* The directory part of a name without one is read uninitialized: the
\* name is given to shm_unlink or, in vain, to unlink.
ztl_shm_remove(name) ==
    LET there == ipc.entry[Key(name)] IN
    /\ name \in ipc.names \ SegNames /\ there # Missing
    /\ ipc' = Unlink(ipc, name)
    /\ relied' = [relied EXCEPT !.unnamed = @ \cup {there}]

(***************************************************************************)
(* lockf locks an object for a process, not for a handle.                  *)
(***************************************************************************)
Lockable(h) == Opened(h) /\ ~IsSegment(h) /\ ipc.shm[h].fd \in Objects /\ ipc.shm[h].how # "open_only"
ztl_shm_trylock_exclusive(h) ==
    LET o == ipc.shm[h].fd IN
    /\ Lockable(h) /\ ipc.locked[o] \in {Nobody, h.proc}
    /\ ipc' = [ipc EXCEPT !.locked[o] = h.proc]
    /\ relied' = [relied EXCEPT !.held = @ \cup {h}]
ztl_shm_unlock_file(h) ==
    LET o == ipc.shm[h].fd IN
    /\ Lockable(h)
    /\ ipc' = [ipc EXCEPT !.locked[o] = IF @ = h.proc THEN Nobody ELSE @]
    /\ relied' = Forgotten({h}, o, h.proc)

\* A process dies: the system closes its descriptors and unmaps its memory;
\* a segment stays.
Die(p) ==
    LET own == {h \in ShmHandles : h.proc = p} IN
    /\ \E h \in own : Opened(h)
    /\ ipc' = [ipc EXCEPT !.shm = [h \in ShmHandles |-> IF h \in own THEN Closed ELSE @[h]],
                          !.locked = [o \in Objects |-> IF @[o] = p THEN Nobody ELSE @[o]]]
    /\ relied' = [relied EXCEPT !.held = @ \ own]

ShmNext ==
    \/ \E h \in ipc.use.handles :
         \/ \E name \in ipc.names, how \in {"open_only", "open_or_create"} : ztl_shm_create(h, name, how)
         \/ \E size \in ipc.use.sizes : ztl_shm_truncate(h, size)
         \/ \E write \in BOOLEAN : MapFile(h, write)
         \/ MapSegment(h)
         \/ ztl_shm_detach(h)
         \/ ReleaseFile(h) \/ ReleaseSegment(h)
         \/ ztl_shm_trylock_exclusive(h) \/ ztl_shm_unlock_file(h)
    \/ \E name \in ipc.names : ztl_shm_remove(name)
    \/ \E h \in ShmHandles : Die(h.proc)

ShmSpec == ShmInit /\ [][ShmNext]_shmVars

(***************************************************************************)
(* Processes that map one name have the same memory, unless the object was *)
(* removed in between, and (segments apart) only they have it.  A mapping  *)
(* does not reach behind its object, unless callers gave different sizes   *)
(* or only opened an object that its maker had not sized yet.  And at most *)
(* one process thinks it holds the lock of an object, unless one gave its  *)
(* lock away with another handle.                                          *)
(***************************************************************************)
ShmSound ==
    LET mapped == {h \in ShmHandles : ipc.shm[h].addr # Missing}
        Z(h) == ipc.shm[h]
    IN /\ \A h \in mapped : Z(h).addr # ipc.entry[Key(Z(h).name)] => Z(h).addr \in relied.unnamed
       /\ \A h, i \in mapped : Z(h).addr = Z(i).addr => Key(Z(h).name) = Key(Z(i).name)
       /\ \A h \in mapped : \/ Z(h).len <= ipc.len[Z(h).addr]
                            \/ Z(h).how = "open_only"
                            \/ relied.sized[Z(h).addr] = Differently
       /\ \A h, i \in relied.held : Z(h).fd = Z(i).fd => h.proc = i.proc \/ relied.dropped
=============================================================================
