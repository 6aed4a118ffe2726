----------------------------- MODULE ShmProofs ------------------------------
(***************************************************************************)
(* Proofs about Shm, for any processes, handles, names, sizes and objects. *)
(***************************************************************************)
EXTENDS Shm, TLAPS

Names == FileNames \cup PlainNames \cup SegNames
Procs == {h.proc : h \in ShmHandles}
Ways == {"open_only", "open_or_create"}
Handle == [name : Names \cup {Nobody}, how : Ways, fd : Objects \cup {Missing, -1},
           size : Nat, addr : Objects \cup {Missing}, len : Nat]

ShmTypes ==
    /\ ipc \in [names : {FileNames, PlainNames, SegNames}, use : Uses,
                entry : [Entries -> Objects \cup {Missing}], len : [Objects -> Nat],
                locked : [Objects -> Procs \cup {Nobody}], shm : [ShmHandles -> Handle]]
    /\ relied \in [held : SUBSET ShmHandles, sized : [Objects -> Nat \cup {-1, -2}],
                   unnamed : SUBSET Objects, dropped : BOOLEAN]

(***************************************************************************)
(* The parts of the invariant, over fields of ipc and relied.              *)
(***************************************************************************)

\* A handle that is not open has nothing; one that is has a name of the kind
\* in use, and what it maps is what it opened.
HandlesOf(names, shms) ==
    \A h \in ShmHandles :
      /\ shms[h].name = Nobody => shms[h].fd = Missing /\ shms[h].addr = Missing
      /\ shms[h].name # Nobody => shms[h].name \in names
      /\ shms[h].name # Nobody /\ shms[h].name \notin SegNames => shms[h].fd # Missing
      /\ shms[h].addr # Missing => shms[h].addr = shms[h].fd

\* An object has one name at a time, and the handles on it had that name.
OneNameOf(entry, shms, unnamed) ==
    /\ \A e, g \in Entries : entry[e] = entry[g] /\ entry[e] # Missing => e = g
    /\ \A h \in ShmHandles, e \in Entries :
         shms[h].fd \in Objects /\ shms[h].fd = entry[e] => e = Key(shms[h].name)
    /\ \A h, i \in ShmHandles :
         shms[h].fd \in Objects /\ shms[h].fd = shms[i].fd => Key(shms[h].name) = Key(shms[i].name)
    /\ \A h \in ShmHandles :
         shms[h].fd \in Objects /\ shms[h].fd # entry[Key(shms[h].name)] => shms[h].fd \in unnamed

\* A file has sized and mapped what callers agree on; a segment maps what
\* there is.
WithinSize(len, sized, z) ==
    /\ z.name \notin SegNames /\ z.how # "open_only" =>
         /\ z.size # 0 => z.fd \in Objects /\ sized[z.fd] \in {z.size, -2}
         /\ z.addr # Missing => sized[z.addr] \in {z.len, -2}
    /\ z.name \in SegNames /\ z.addr # Missing => z.len = len[z.addr]

\* The length of an object is the size its callers agree on, and what a
\* handle sized or mapped is that size, unless they disagree.
SizesOf(len, shms, sized) ==
    /\ \A o \in Objects : sized[o] \in Nat => len[o] = sized[o]
    /\ \A h \in ShmHandles : WithinSize(len, sized, shms[h])

\* Who believes to have a lock has the object open, and has the lock, unless
\* a process gave one away with another handle.
LocksOf(locked, shms, held, dropped) ==
    \A h \in held :
      /\ shms[h].name # Nobody /\ shms[h].name \notin SegNames /\ shms[h].fd \in Objects
      /\ dropped = FALSE => locked[shms[h].fd] = h.proc

ShmInv ==
    /\ ShmTypes
    /\ HandlesOf(ipc.names, ipc.shm)
    /\ OneNameOf(ipc.entry, ipc.shm, relied.unnamed)
    /\ SizesOf(ipc.len, ipc.shm, relied.sized)
    /\ LocksOf(ipc.locked, ipc.shm, relied.held, relied.dropped)

-----------------------------------------------------------------------------
(* Objects and names *)

\* A new object is one that nobody uses.
LEMMA NewIsUnused ==
    ASSUME CanMake
    PROVE  /\ NewObject \in Objects
           /\ \A e \in Entries : ipc.entry[e] # NewObject
           /\ \A h \in ShmHandles : ipc.shm[h].fd # NewObject /\ ipc.shm[h].addr # NewObject
<1>1. NewObject \in Objects /\ ~InUse(NewObject)
  BY DEF CanMake, NewObject
<1> QED BY <1>1 DEF InUse

\* Names, and the keys the code makes of them.
LEMMA KeyOfName ==
    /\ \A n \in Names : Key(n) \in Entries
    /\ \A n \in Names \ SegNames : Key(n) = n
    /\ \A n, m \in SegNames : Key(n) = Key(m)
BY DEF Key, Entries, Names

-----------------------------------------------------------------------------
(* What an update of a field keeps of each part. *)

\* A handle that was old lets go of its object, keeps it, or opens the one its
\* name has.
OnItsObject(entry, old, z) ==
    z.fd \in Objects =>
      \/ z.fd = old.fd /\ Key(z.name) = Key(old.name)
      \/ z.fd = entry[Key(z.name)] /\ Key(z.name) \in Entries

\* One handle is changed.
LEMMA HandlesSet ==
    ASSUME NEW names, NEW shms \in [ShmHandles -> Handle], NEW h \in ShmHandles, NEW z \in Handle,
           HandlesOf(names, shms),
           z.name = Nobody => z.fd = Missing /\ z.addr = Missing,
           z.name # Nobody => z.name \in names,
           z.name # Nobody /\ z.name \notin SegNames => z.fd # Missing,
           z.addr # Missing => z.addr = z.fd
    PROVE  HandlesOf(names, [shms EXCEPT ![h] = z])
BY DEF HandlesOf

\* One handle is changed.
LEMMA OneNameSet ==
    ASSUME NEW entry, NEW unnamed, NEW shms \in [ShmHandles -> Handle], NEW h \in ShmHandles, NEW z \in Handle,
           OneNameOf(entry, shms, unnamed),
           OnItsObject(entry, shms[h], z)
    PROVE  OneNameOf(entry, [shms EXCEPT ![h] = z], unnamed)
<1> DEFINE now == [shms EXCEPT ![h] = z]
<1>1. now[h] = z /\ \A i \in ShmHandles : i # h => now[i] = shms[i]
  OBVIOUS
<1> HIDE DEF now
<1>2. \A e, g \in Entries : entry[e] = entry[g] /\ entry[e] # Missing => e = g
  BY DEF OneNameOf
<1>3. ASSUME NEW i \in ShmHandles, NEW e \in Entries, now[i].fd \in Objects, now[i].fd = entry[e]
      PROVE  e = Key(now[i].name)
  <2>1. Missing \notin Objects
    BY ShmAssumption DEF Missing
  <2>2. CASE i # h
    BY <1>1, <1>3, <2>2 DEF OneNameOf
  <2>3. CASE i = h /\ z.fd = shms[h].fd /\ Key(z.name) = Key(shms[h].name)
    BY <1>1, <1>3, <2>3 DEF OneNameOf
  <2>4. CASE i = h /\ z.fd = entry[Key(z.name)] /\ Key(z.name) \in Entries
    BY <1>1, <1>2, <1>3, <2>1, <2>4
  <2> QED BY <1>1, <1>3, <2>2, <2>3, <2>4 DEF OnItsObject
<1>4. ASSUME NEW i \in ShmHandles, z.fd \in Objects, z.fd = shms[i].fd
      PROVE  Key(z.name) = Key(shms[i].name)
  BY <1>4 DEF OneNameOf, OnItsObject
<1>5. ASSUME NEW i \in ShmHandles, NEW j \in ShmHandles, now[i].fd \in Objects, now[i].fd = now[j].fd
      PROVE  Key(now[i].name) = Key(now[j].name)
  <2>1. CASE i = h /\ j = h
    BY <2>1
  <2>2. CASE i = h /\ j # h
    BY <1>1, <1>4, <1>5, <2>2
  <2>3. CASE i # h /\ j = h
    BY <1>1, <1>4, <1>5, <2>3
  <2>4. CASE i # h /\ j # h
    BY <1>1, <1>5, <2>4 DEF OneNameOf
  <2> QED BY <2>1, <2>2, <2>3, <2>4
<1>6. ASSUME NEW i \in ShmHandles, now[i].fd \in Objects, now[i].fd # entry[Key(now[i].name)]
      PROVE  now[i].fd \in unnamed
  BY <1>1, <1>6 DEF OneNameOf, OnItsObject
<1>7. OneNameOf(entry, now, unnamed)
  BY <1>2, <1>3, <1>5, <1>6 DEF OneNameOf
<1> QED BY <1>7 DEF now

\* A new object gets a name that had none.
LEMMA OneNameNew ==
    ASSUME NEW entry \in [Entries -> Objects \cup {Missing}], NEW unnamed, NEW shms \in [ShmHandles -> Handle],
           NEW k \in Entries, NEW o \in Objects,
           OneNameOf(entry, shms, unnamed), entry[k] = Missing,
           \A e \in Entries : entry[e] # o,
           \A h \in ShmHandles : shms[h].fd # o
    PROVE  OneNameOf([entry EXCEPT ![k] = o], shms, unnamed \ {o})
<1> DEFINE now == [entry EXCEPT ![k] = o]
<1>1. now[k] = o /\ \A e \in Entries : e # k => now[e] = entry[e]
  OBVIOUS
<1> HIDE DEF now
<1>2. \A e, g \in Entries : now[e] = now[g] /\ now[e] # Missing => e = g
  BY <1>1 DEF OneNameOf
<1>3. ASSUME NEW h \in ShmHandles, NEW e \in Entries, shms[h].fd \in Objects, shms[h].fd = now[e]
      PROVE  e = Key(shms[h].name)
  BY <1>1, <1>3 DEF OneNameOf
<1>4. ASSUME NEW h \in ShmHandles, shms[h].fd \in Objects, shms[h].fd # now[Key(shms[h].name)]
      PROVE  shms[h].fd \in unnamed \ {o}
  <2>1. Missing \notin Objects
    BY ShmAssumption DEF Missing
  <2>2. Key(shms[h].name) # k => now[Key(shms[h].name)] = entry[Key(shms[h].name)]
    BY DEF now
  <2> QED BY <1>4, <2>1, <2>2 DEF OneNameOf
<1>5. \A h, i \in ShmHandles :
        shms[h].fd \in Objects /\ shms[h].fd = shms[i].fd => Key(shms[h].name) = Key(shms[i].name)
  BY DEF OneNameOf
<1>6. OneNameOf(now, shms, unnamed \ {o})
  BY <1>2, <1>3, <1>4, <1>5 DEF OneNameOf
<1> QED BY <1>6 DEF now

\* An object loses its name.
LEMMA OneNameUnlink ==
    ASSUME NEW entry \in [Entries -> Objects \cup {Missing}], NEW unnamed, NEW shms \in [ShmHandles -> Handle],
           NEW k \in Entries, OneNameOf(entry, shms, unnamed), entry[k] # Missing
    PROVE  OneNameOf([entry EXCEPT ![k] = Missing], shms, unnamed \cup {entry[k]})
<1> DEFINE now == [entry EXCEPT ![k] = Missing]
<1>0. Missing \notin Objects
  BY ShmAssumption DEF Missing
<1>1. now[k] = Missing /\ \A e \in Entries : e # k => now[e] = entry[e]
  OBVIOUS
<1>2. \A e : e # k => now[e] = entry[e]
  OBVIOUS
<1> HIDE DEF now
<1>3. \A e, g \in Entries : now[e] = now[g] /\ now[e] # Missing => e = g
  BY <1>1 DEF OneNameOf
<1>4. ASSUME NEW h \in ShmHandles, NEW e \in Entries, shms[h].fd \in Objects, shms[h].fd = now[e]
      PROVE  e = Key(shms[h].name)
  BY <1>0, <1>1, <1>4 DEF OneNameOf
<1>5. ASSUME NEW h \in ShmHandles, shms[h].fd \in Objects, shms[h].fd # now[Key(shms[h].name)]
      PROVE  shms[h].fd \in unnamed \cup {entry[k]}
  BY <1>2, <1>5 DEF OneNameOf
<1>6. \A h, i \in ShmHandles :
        shms[h].fd \in Objects /\ shms[h].fd = shms[i].fd => Key(shms[h].name) = Key(shms[i].name)
  BY DEF OneNameOf
<1>7. OneNameOf(now, shms, unnamed \cup {entry[k]})
  BY <1>3, <1>4, <1>5, <1>6 DEF OneNameOf
<1> QED BY <1>7 DEF now

\* One handle is changed, within its size.
LEMMA SizesSet ==
    ASSUME NEW len, NEW sized, NEW shms \in [ShmHandles -> Handle], NEW h \in ShmHandles, NEW z \in Handle,
           SizesOf(len, shms, sized), WithinSize(len, sized, z)
    PROVE  SizesOf(len, [shms EXCEPT ![h] = z], sized)
BY DEF SizesOf

\* A new object has no size that callers agreed on.
LEMMA SizesNew ==
    ASSUME NEW len \in [Objects -> Nat], NEW sized \in [Objects -> Nat \cup {-1, -2}], NEW shms \in [ShmHandles -> Handle],
           NEW o \in Objects, NEW n \in Nat, SizesOf(len, shms, sized),
           \A h \in ShmHandles : shms[h].fd # o /\ shms[h].addr # o
    PROVE  SizesOf([len EXCEPT ![o] = n], shms, [sized EXCEPT ![o] = -1])
BY DEF SizesOf, WithinSize

\* A lock is as it was as far as holders are concerned, and one handle that
\* holds none, or stays on its object, is changed.
LEMMA LocksSet ==
    ASSUME NEW locked, NEW held \in SUBSET ShmHandles, NEW dropped, NEW shms \in [ShmHandles -> Handle],
           NEW h \in ShmHandles, NEW z \in Handle, LocksOf(locked, shms, held, dropped),
           h \notin held \/ (z.fd = shms[h].fd /\ z.name = shms[h].name)
    PROVE  LocksOf(locked, [shms EXCEPT ![h] = z], held, dropped)
BY DEF LocksOf

\* A new object is locked by nobody, and nobody believes it is.
LEMMA LocksNew ==
    ASSUME NEW locked \in [Objects -> Procs \cup {Nobody}], NEW held \in SUBSET ShmHandles, NEW dropped,
           NEW shms \in [ShmHandles -> Handle], LocksOf(locked, shms, held, dropped),
           NEW o \in Objects, \A h \in ShmHandles : shms[h].fd # o
    PROVE  LocksOf([locked EXCEPT ![o] = Nobody], shms, held, dropped)
BY DEF LocksOf

\* A handle gives up the lock of its process; others of the process that
\* believed in it make it a dropped one.
GivenUp(h, locked, shms, held, dropped, now, gone) ==
    /\ \A o \in Objects : now[o] = IF o = shms[h].fd /\ locked[o] = h.proc THEN Nobody ELSE locked[o]
    /\ gone = FALSE => /\ dropped = FALSE
                       /\ \A i \in held : i.proc = h.proc /\ shms[i].fd = shms[h].fd => i = h

\* Who still believes in a lock after that has it.
LEMMA LocksGiven ==
    ASSUME NEW locked \in [Objects -> Procs \cup {Nobody}], NEW held \in SUBSET ShmHandles, NEW dropped,
           NEW shms \in [ShmHandles -> Handle], LocksOf(locked, shms, held, dropped),
           NEW h \in ShmHandles, NEW now, NEW gone, GivenUp(h, locked, shms, held, dropped, now, gone)
    PROVE  LocksOf(now, shms, held \ {h}, gone)
BY DEF LocksOf, GivenUp

\* A process locks what nobody else has locked.
LEMMA LocksTaken ==
    ASSUME NEW locked \in [Objects -> Procs \cup {Nobody}], NEW held \in SUBSET ShmHandles, NEW dropped,
           NEW shms \in [ShmHandles -> Handle], LocksOf(locked, shms, held, dropped),
           NEW h \in ShmHandles, shms[h].name # Nobody, shms[h].name \notin SegNames, shms[h].fd \in Objects,
           locked[shms[h].fd] \in {Nobody, h.proc}
    PROVE  LocksOf([locked EXCEPT ![shms[h].fd] = h.proc], shms, held \cup {h}, dropped)
<1> DEFINE o == shms[h].fd
           now == [locked EXCEPT ![o] = h.proc]
<1>1. now[o] = h.proc /\ \A p \in Objects : p # o => now[p] = locked[p]
  OBVIOUS
<1> HIDE DEF now
<1>2. ASSUME NEW i \in held \cup {h}
      PROVE  /\ shms[i].name # Nobody /\ shms[i].name \notin SegNames /\ shms[i].fd \in Objects
             /\ dropped = FALSE => now[shms[i].fd] = i.proc
  <2>1. CASE i = h
    BY <1>1, <2>1
  <2>2. CASE i \in held /\ shms[i].fd = o
    <3>1. i.proc # Nobody
      BY <2>2, ShmAssumption DEF Nobody
    <3>2. dropped = FALSE => locked[o] = i.proc
      BY <2>2 DEF LocksOf
    <3>3. dropped = FALSE => i.proc = h.proc
      BY <3>1, <3>2
    <3> QED BY <1>1, <2>2, <3>3 DEF LocksOf
  <2>3. CASE i \in held /\ shms[i].fd # o
    BY <1>1, <2>3 DEF LocksOf
  <2> QED BY <1>2, <2>1, <2>2, <2>3
<1>3. LocksOf(now, shms, held \cup {h}, dropped)
  BY <1>2 DEF LocksOf
<1> QED BY <1>3 DEF now

-----------------------------------------------------------------------------
(* The actions *)

\* What the types say of the fields, and the assumption of names and objects.
LEMMA FieldTypes ==
    ASSUME ShmTypes
    PROVE  /\ ipc.names \in {FileNames, PlainNames, SegNames} /\ ipc.use \in Uses
           /\ ipc.entry \in [Entries -> Objects \cup {Missing}] /\ ipc.len \in [Objects -> Nat]
           /\ ipc.locked \in [Objects -> Procs \cup {Nobody}] /\ ipc.shm \in [ShmHandles -> Handle]
           /\ relied.held \in SUBSET ShmHandles /\ relied.sized \in [Objects -> Nat \cup {-1, -2}]
           /\ relied.unnamed \in SUBSET Objects /\ relied.dropped \in BOOLEAN
           /\ \A n \in ipc.names : n \in Names /\ n # Nobody
           /\ ipc.names \cap SegNames = {} \/ ipc.names = SegNames
           /\ Missing \notin Objects /\ -1 \notin Objects
<1>1. /\ ipc.names \in {FileNames, PlainNames, SegNames} /\ ipc.use \in Uses
      /\ ipc.entry \in [Entries -> Objects \cup {Missing}] /\ ipc.len \in [Objects -> Nat]
      /\ ipc.locked \in [Objects -> Procs \cup {Nobody}] /\ ipc.shm \in [ShmHandles -> Handle]
      /\ relied.held \in SUBSET ShmHandles /\ relied.sized \in [Objects -> Nat \cup {-1, -2}]
      /\ relied.unnamed \in SUBSET Objects /\ relied.dropped \in BOOLEAN
  BY DEF ShmTypes
<1>2. /\ \A n \in ipc.names : n \in Names /\ n # Nobody
      /\ ipc.names \cap SegNames = {} \/ ipc.names = SegNames
  BY <1>1, ShmAssumption DEF Names, Nobody
<1>3. Missing \notin Objects /\ -1 \notin Objects
  BY ShmAssumption DEF Missing
<1> QED BY <1>1, <1>2, <1>3

\* What a ztl_shm_t may become, whatever happens to it.
Sensible(z) ==
    /\ z \in Handle
    /\ z.name = Nobody => z.fd = Missing /\ z.addr = Missing
    /\ z.name # Nobody => z.name \in ipc.names
    /\ z.name # Nobody /\ z.name \notin SegNames => z.fd # Missing
    /\ z.addr # Missing => z.addr = z.fd

\* Handle h becomes z, and nothing else changes.
Set(h, z) ==
    /\ ShmTypes' /\ ipc'.shm = [ipc.shm EXCEPT ![h] = z] /\ ipc'.names = ipc.names /\ ipc'.entry = ipc.entry
    /\ ipc'.len = ipc.len /\ ipc'.locked = ipc.locked /\ UNCHANGED relied

\* An action that changes one handle, on an object it had or its name has,
\* and within its size.
LEMMA SetStep ==
    ASSUME ShmInv, NEW h \in ShmHandles, NEW z, Sensible(z), Set(h, z),
           OnItsObject(ipc.entry, ipc.shm[h], z), WithinSize(ipc.len, relied.sized, z),
           h \notin relied.held \/ (z.fd = ipc.shm[h].fd /\ z.name = ipc.shm[h].name)
    PROVE  ShmInv'
<1>0. ShmTypes /\ HandlesOf(ipc.names, ipc.shm) /\ OneNameOf(ipc.entry, ipc.shm, relied.unnamed)
      /\ SizesOf(ipc.len, ipc.shm, relied.sized) /\ LocksOf(ipc.locked, ipc.shm, relied.held, relied.dropped)
  BY DEF ShmInv
<1>1. z \in Handle
  BY DEF Sensible
<1>2. /\ ShmTypes' /\ ipc'.shm = [ipc.shm EXCEPT ![h] = z] /\ ipc'.names = ipc.names /\ ipc'.entry = ipc.entry
      /\ ipc'.len = ipc.len /\ ipc'.locked = ipc.locked
  BY DEF Set
<1>3. HandlesOf(ipc'.names, ipc'.shm)
  BY <1>0, <1>2, FieldTypes, HandlesSet DEF Sensible
<1>4. OneNameOf(ipc'.entry, ipc'.shm, relied'.unnamed)
  BY <1>0, <1>1, <1>2, FieldTypes, OneNameSet DEF Set
<1>5. SizesOf(ipc'.len, ipc'.shm, relied'.sized)
  BY <1>0, <1>1, <1>2, FieldTypes, SizesSet DEF Set
<1>6. LocksOf(ipc'.locked, ipc'.shm, relied'.held, relied'.dropped)
  <2>1. ipc.shm \in [ShmHandles -> Handle] /\ relied.held \in SUBSET ShmHandles
    BY <1>0, FieldTypes
  <2>2. LocksOf(ipc.locked, [ipc.shm EXCEPT ![h] = z], relied.held, relied.dropped)
    BY <1>0, <1>1, <2>1, LocksSet
  <2> QED BY <1>2, <2>2 DEF Set
<1> QED BY <1>2, <1>3, <1>4, <1>5, <1>6 DEF ShmInv

\* A new object of length n for key k, opened by handle h, which becomes z.
Made(h, z, k, n) ==
    /\ ipc.entry[k] = Missing /\ CanMake
    /\ ipc' = [ipc EXCEPT !.entry[k] = NewObject, !.len[NewObject] = n,
                          !.locked[NewObject] = Nobody, !.shm[h] = z]
    /\ relied' = [relied EXCEPT !.sized[NewObject] = -1, !.unnamed = @ \ {NewObject}]

\* An action that makes a new object, for one handle.
LEMMA NewStep ==
    ASSUME ShmInv, NEW h \in ShmHandles, h \notin relied.held, NEW z, Sensible(z), NEW n \in Nat,
           NEW k, k = Key(z.name), z.name # Nobody, z.fd = NewObject, Made(h, z, k, n),
           z.name \notin SegNames => z.size = 0 /\ z.addr = Missing,
           z.name \in SegNames => z.len = n
    PROVE  ShmInv'
<1> DEFINE o == NewObject
<1>0. ShmTypes /\ HandlesOf(ipc.names, ipc.shm) /\ OneNameOf(ipc.entry, ipc.shm, relied.unnamed)
      /\ SizesOf(ipc.len, ipc.shm, relied.sized) /\ LocksOf(ipc.locked, ipc.shm, relied.held, relied.dropped)
  BY DEF ShmInv
<1>1. /\ o \in Objects /\ \A e \in Entries : ipc.entry[e] # o
      /\ \A i \in ShmHandles : ipc.shm[i].fd # o /\ ipc.shm[i].addr # o
  BY NewIsUnused DEF Made
<1>2. z \in Handle /\ k \in Entries
  BY <1>0, FieldTypes, KeyOfName DEF Sensible
<1> HIDE DEF o
<1>3. /\ ipc'.shm = [ipc.shm EXCEPT ![h] = z] /\ ipc'.names = ipc.names /\ ipc'.entry = [ipc.entry EXCEPT ![k] = o]
      /\ ipc'.len = [ipc.len EXCEPT ![o] = n] /\ ipc'.locked = [ipc.locked EXCEPT ![o] = Nobody]
      /\ relied'.sized = [relied.sized EXCEPT ![o] = -1] /\ relied'.unnamed = relied.unnamed \ {o}
      /\ relied'.held = relied.held /\ relied'.dropped = relied.dropped
  BY <1>0 DEF ShmTypes, Made, o
<1>4. ShmTypes'
  BY <1>0, <1>1, <1>2 DEF ShmTypes, Made, o
<1>5. HandlesOf(ipc'.names, ipc'.shm)
  BY <1>0, <1>3, FieldTypes, HandlesSet DEF Sensible
<1>6. OneNameOf(ipc'.entry, ipc'.shm, relied'.unnamed)
  <2>1. OneNameOf(ipc'.entry, ipc.shm, relied'.unnamed)
    <3>1. ipc.entry \in [Entries -> Objects \cup {Missing}] /\ ipc.shm \in [ShmHandles -> Handle]
      BY <1>0, FieldTypes
    <3>2. ipc.entry[k] = Missing
      BY DEF Made
    <3>3. OneNameOf([ipc.entry EXCEPT ![k] = o], ipc.shm, relied.unnamed \ {o})
      BY <1>0, <1>1, <1>2, <3>1, <3>2, OneNameNew
    <3> QED BY <1>3, <3>3
  <2>2. OnItsObject(ipc'.entry, ipc.shm[h], z)
    BY <1>0, <1>2, <1>3, FieldTypes DEF OnItsObject, o
  <2> QED BY <1>0, <1>2, <1>3, <2>1, <2>2, FieldTypes, OneNameSet
<1>7. SizesOf(ipc'.len, ipc'.shm, relied'.sized)
  <2>1. SizesOf(ipc'.len, ipc.shm, relied'.sized)
    <3>1. /\ ipc.len \in [Objects -> Nat] /\ relied.sized \in [Objects -> Nat \cup {-1, -2}]
          /\ ipc.shm \in [ShmHandles -> Handle]
      BY <1>0, FieldTypes
    <3>2. SizesOf([ipc.len EXCEPT ![o] = n], ipc.shm, [relied.sized EXCEPT ![o] = -1])
      BY <1>0, <1>1, <3>1, SizesNew
    <3> QED BY <1>3, <3>2
  <2>2. z.addr # Missing => z.addr = o /\ ipc'.len[o] = n
    BY <1>0, <1>1, <1>3, FieldTypes DEF Sensible, o
  <2>3. WithinSize(ipc'.len, relied'.sized, z)
    BY <2>2 DEF WithinSize
  <2> QED BY <1>0, <1>2, <1>3, <2>1, <2>3, FieldTypes, SizesSet
<1>8. LocksOf(ipc'.locked, ipc'.shm, relied'.held, relied'.dropped)
  <2>1. /\ ipc.locked \in [Objects -> Procs \cup {Nobody}] /\ relied.held \in SUBSET ShmHandles
        /\ ipc.shm \in [ShmHandles -> Handle]
    BY <1>0, FieldTypes
  <2>2. LocksOf([ipc.locked EXCEPT ![o] = Nobody], ipc.shm, relied.held, relied.dropped)
    BY <1>0, <1>1, <2>1, LocksNew
  <2>3. LocksOf([ipc.locked EXCEPT ![o] = Nobody], [ipc.shm EXCEPT ![h] = z], relied.held, relied.dropped)
    BY <1>2, <2>1, <2>2, LocksSet
  <2> QED BY <1>3, <2>3
<1> QED BY <1>4, <1>5, <1>6, <1>7, <1>8 DEF ShmInv

\* The first ztl_shm_t of a name, and one with a descriptor.
Fresh(name, how) == [Closed EXCEPT !.name = name, !.how = how]
On(z, o) == [z EXCEPT !.fd = o]

\* Nothing is sized or mapped yet.
LEMMA FreshHandle ==
    ASSUME NEW name \in Names, NEW how \in Ways, NEW o \in Objects \cup {Missing, -1},
           NEW z, (z = Fresh(name, how) /\ o = Missing) \/ z = On(Fresh(name, how), o)
    PROVE  z \in Handle /\ z.name = name /\ z.how = how /\ z.fd = o /\ z.size = 0 /\ z.addr = Missing /\ z.len = 0
<1>1. CASE z = Fresh(name, how) /\ o = Missing
  BY <1>1 DEF Fresh, Closed, Handle, Missing
<1>2. CASE z = On(Fresh(name, how), o)
  BY <1>2 DEF On, Fresh, Closed, Handle, Missing
<1> QED BY <1>1, <1>2

\* ztl_shm_create makes a handle on what the name has, on nothing, or on a
\* new object.
LEMMA CreateStep ==
    ASSUME ShmInv, NEW h \in ShmHandles, NEW name \in ipc.names, NEW how \in Ways,
           ztl_shm_create(h, name, how)
    PROVE  ShmInv'
<1> DEFINE new == Fresh(name, how)
<1>0. ShmTypes /\ LocksOf(ipc.locked, ipc.shm, relied.held, relied.dropped)
  BY DEF ShmInv
<1>1. h \notin relied.held
  BY <1>0 DEF ztl_shm_create, Opened, Nobody, LocksOf, Nobody
<1>2. name \in Names /\ name # Nobody
  BY <1>0, FieldTypes
<1>3. /\ new.name = name /\ new.how = how
      /\ \/ name \in SegNames /\ ipc' = [ipc EXCEPT !.shm[h] = new] /\ UNCHANGED relied
         \/ name \notin SegNames /\ _PrivOpenOrCreate(h, new)
  BY DEF ztl_shm_create, Closed, Fresh
<1> HIDE DEF new
<1>4. ASSUME NEW o \in Objects \cup {Missing, -1}, NEW z, (new = z /\ o = Missing) \/ z = On(new, o),
             ipc' = [ipc EXCEPT !.shm[h] = z], UNCHANGED relied,
             o = Missing => name \in SegNames,
             o \in Objects => o = ipc.entry[Key(name)]
      PROVE  ShmInv'
  <2>1. z \in Handle /\ z.name = name /\ z.how = how /\ z.fd = o /\ z.size = 0 /\ z.addr = Missing /\ z.len = 0
    BY <1>2, <1>4, FreshHandle DEF new
  <2>2. Sensible(z)
    BY <1>2, <1>4, <2>1 DEF Sensible
  <2>3. OnItsObject(ipc.entry, ipc.shm[h], z) /\ WithinSize(ipc.len, relied.sized, z)
    BY <1>2, <1>4, <2>1, KeyOfName DEF OnItsObject, WithinSize
  <2>4. Set(h, z)
    BY <1>0, <1>4, <2>1 DEF Set, ShmTypes
  <2> QED BY <1>1, <2>2, <2>3, <2>4, SetStep
<1>5. CASE name \in SegNames /\ ipc' = [ipc EXCEPT !.shm[h] = new] /\ UNCHANGED relied
  BY <1>0, <1>4, <1>5, FieldTypes
<1>6. CASE name \notin SegNames /\ _PrivOpenOrCreate(h, new)
  <2>1. Key(name) = name /\ name \in Entries
    BY <1>2, <1>6, KeyOfName
  <2>2. ipc.entry[name] \in Objects \cup {Missing}
    BY <1>0, <2>1, FieldTypes
  <2>3. CASE /\ ipc.entry[name] # Missing
             /\ ipc' = [ipc EXCEPT !.shm[h] = On(new, ipc.entry[name])] /\ UNCHANGED relied
    BY <1>4, <2>1, <2>2, <2>3
  <2>4. CASE ipc' = [ipc EXCEPT !.shm[h] = On(new, -1)] /\ UNCHANGED relied
    BY <1>0, <1>4, <2>4, FieldTypes DEF Missing
  <2>5. CASE Made(h, On(new, NewObject), name, 0)
    <3> DEFINE z == On(new, NewObject)
    <3>1. NewObject \in Objects
      BY <2>5, NewIsUnused DEF Made
    <3>2. z \in Handle /\ z.name = name /\ z.fd = NewObject /\ z.size = 0 /\ z.addr = Missing
      BY <1>2, <3>1, FreshHandle DEF new
    <3> HIDE DEF z
    <3>3. Sensible(z)
      BY <1>0, <1>2, <3>1, <3>2, FieldTypes DEF Sensible
    <3>4. Made(h, z, name, 0)
      BY <2>5 DEF z
    <3> QED BY <1>1, <1>2, <1>6, <2>1, <3>2, <3>3, <3>4, NewStep
  <2>6. \/ ipc.entry[name] # Missing /\ ipc' = [ipc EXCEPT !.shm[h] = On(new, ipc.entry[name])] /\ UNCHANGED relied
        \/ ipc' = [ipc EXCEPT !.shm[h] = On(new, -1)] /\ UNCHANGED relied
        \/ Made(h, On(new, NewObject), name, 0)
    BY <1>3, <1>6 DEF _PrivOpenOrCreate, Missing, INVALID_HANDLE_VALUE, Nobody,
                      Unsized, Made, On
  <2> QED BY <2>3, <2>4, <2>5, <2>6
<1> QED BY <1>3, <1>5, <1>6


\* What the invariant says of one handle.
LEMMA HandleParts ==
    ASSUME ShmInv, NEW h \in ShmHandles
    PROVE  /\ Sensible(ipc.shm[h]) /\ WithinSize(ipc.len, relied.sized, ipc.shm[h])
           /\ ipc.shm[h] \in Handle
           /\ h \in relied.held => ipc.shm[h].name # Nobody /\ ipc.shm[h].name \notin SegNames
<1>1. ShmTypes /\ HandlesOf(ipc.names, ipc.shm) /\ SizesOf(ipc.len, ipc.shm, relied.sized)
      /\ LocksOf(ipc.locked, ipc.shm, relied.held, relied.dropped)
  BY DEF ShmInv
<1>2. ipc.shm[h] \in Handle
  BY <1>1, FieldTypes
<1> QED BY <1>1, <1>2 DEF Sensible, HandlesOf, SizesOf, LocksOf

\* ztl_shm_map_region of a file maps its object, in the size the handle knows.
LEMMA MapFileStep ==
    ASSUME ShmInv, NEW h \in ShmHandles, NEW write, MapFile(h, write)
    PROVE  ShmInv'
<1> DEFINE z == ipc.shm[h]
           y == [z EXCEPT !.addr = z.fd, !.len = z.size]
<1>0. ShmTypes /\ Sensible(z) /\ WithinSize(ipc.len, relied.sized, z) /\ z \in Handle
  BY HandleParts DEF ShmInv
<1>1. /\ z.name # Nobody /\ z.name \notin SegNames /\ z.fd # -1 /\ z.size > 0 /\ UNCHANGED relied
      /\ ipc' = [ipc EXCEPT !.shm[h].addr = z.fd, !.shm[h].len = z.size]
  BY DEF MapFile, Opened, IsSegment, INVALID_HANDLE_VALUE, Nobody
<1>2. z.fd \in Objects /\ z.size \in Nat
  BY <1>0, <1>1 DEF Sensible, Handle
<1>3. y \in Handle /\ y.name = z.name /\ y.how = z.how /\ y.fd = z.fd /\ y.size = z.size
      /\ y.addr = z.fd /\ y.len = z.size
  BY <1>0, <1>2 DEF Handle
<1>4. Set(h, y)
  BY <1>0, <1>1, <1>3 DEF Set, ShmTypes
<1> HIDE DEF y
<1> HIDE DEF z
<1>5. Sensible(y)
  BY <1>0, <1>1, <1>2, <1>3 DEF Sensible
<1>6. OnItsObject(ipc.entry, z, y)
  BY <1>3 DEF OnItsObject
<1>7. WithinSize(ipc.len, relied.sized, y)
  BY <1>0, <1>1, <1>2, <1>3 DEF WithinSize
<1> QED BY <1>3, <1>4, <1>5, <1>6, <1>7, SetStep DEF z

\* ztl_shm_detach unmaps.
LEMMA DetachStep ==
    ASSUME ShmInv, NEW h \in ShmHandles, ztl_shm_detach(h)
    PROVE  ShmInv'
<1> DEFINE z == ipc.shm[h]
           y == [z EXCEPT !.addr = Missing, !.len = 0]
<1>0. ShmTypes /\ Sensible(z) /\ WithinSize(ipc.len, relied.sized, z) /\ z \in Handle
  BY HandleParts DEF ShmInv
<1>1. ipc' = [ipc EXCEPT !.shm[h].addr = Missing, !.shm[h].len = 0] /\ UNCHANGED relied
  BY DEF ztl_shm_detach, Missing
<1>2. y \in Handle /\ y.name = z.name /\ y.how = z.how /\ y.fd = z.fd /\ y.size = z.size
      /\ y.addr = Missing /\ y.len = 0
  BY <1>0 DEF Handle
<1>3. Set(h, y)
  BY <1>0, <1>1, <1>2 DEF Set, ShmTypes
<1> HIDE DEF y
<1> HIDE DEF z
<1>4. Sensible(y)
  BY <1>0, <1>2 DEF Sensible
<1>5. OnItsObject(ipc.entry, z, y)
  BY <1>2 DEF OnItsObject
<1>6. WithinSize(ipc.len, relied.sized, y)
  BY <1>0, <1>2 DEF WithinSize
<1> QED BY <1>2, <1>3, <1>4, <1>5, <1>6, SetStep DEF z

\* ztl_shm_map_region of a segment attaches the one there is, or a new one.
LEMMA MapSegmentStep ==
    ASSUME ShmInv, NEW h \in ShmHandles, MapSegment(h)
    PROVE  ShmInv'
<1> DEFINE z == ipc.shm[h]
           k == Key(z.name)
           at(o, n) == [z EXCEPT !.fd = o, !.addr = o, !.len = n]
           none == [z EXCEPT !.fd = -1]
<1>0. ShmTypes /\ Sensible(z) /\ WithinSize(ipc.len, relied.sized, z) /\ z \in Handle
  BY HandleParts DEF ShmInv
<1>1. z.name # Nobody /\ z.name \in SegNames /\ z.addr = Missing /\ h \notin relied.held
  BY HandleParts DEF MapSegment, Opened, IsSegment, Missing, Nobody
<1>2. k \in Entries /\ ipc.entry[k] \in Objects \cup {Missing} /\ z.size \in Nat
  BY <1>0, <1>1, KeyOfName, FieldTypes DEF Names, Handle
<1>3. \A o \in Objects, n \in Nat :
        /\ at(o, n) \in Handle /\ at(o, n).name = z.name /\ at(o, n).how = z.how /\ at(o, n).fd = o
        /\ at(o, n).size = z.size /\ at(o, n).addr = o /\ at(o, n).len = n
  BY <1>0 DEF Handle
<1>4. none \in Handle /\ none.name = z.name /\ none.how = z.how /\ none.fd = -1 /\ none.addr = Missing
  BY <1>0, <1>1 DEF Handle
<1>5. \/ ipc.entry[k] # Missing /\ ipc' = [ipc EXCEPT !.shm[h] = at(ipc.entry[k], ipc.len[ipc.entry[k]])] /\ UNCHANGED relied
      \/ z.size > 0 /\ Made(h, at(NewObject, z.size), k, z.size)
      \/ ipc' = [ipc EXCEPT !.shm[h].fd = -1] /\ UNCHANGED relied
  BY DEF MapSegment, Missing, Nobody, Unsized, INVALID_HANDLE_VALUE, Made
<1>6. ASSUME ipc.entry[k] # Missing, UNCHANGED relied,
             ipc' = [ipc EXCEPT !.shm[h] = at(ipc.entry[k], ipc.len[ipc.entry[k]])]
      PROVE  ShmInv'
  <2> DEFINE o == ipc.entry[k]
             y == at(o, ipc.len[o])
  <2>1. o \in Objects /\ ipc.len[o] \in Nat
    BY <1>0, <1>2, <1>6, FieldTypes
  <2> HIDE DEF o
  <2>2. y \in Handle /\ y.name = z.name /\ y.fd = o /\ y.addr = o /\ y.len = ipc.len[o]
    <3> DEFINE n == ipc.len[o]
    <3>1. n \in Nat
      BY <2>1
    <3> HIDE DEF n, at, z
    <3>2. at(o, n) \in Handle /\ at(o, n).name = z.name /\ at(o, n).fd = o /\ at(o, n).addr = o /\ at(o, n).len = n
      BY <1>3, <2>1, <3>1, Zenon
    <3> QED BY <3>2 DEF n
  <2> USE DEF o
  <2> HIDE DEF at
  <2>3. Set(h, y)
    BY <1>0, <1>6, <2>2 DEF Set, ShmTypes
  <2>4. Sensible(y)
    BY <1>0, <1>1, <2>1, <2>2 DEF Sensible
  <2>5. OnItsObject(ipc.entry, z, y)
    BY <1>2, <2>2 DEF OnItsObject
  <2>6. WithinSize(ipc.len, relied.sized, y)
    BY <1>1, <2>2 DEF WithinSize
  <2> HIDE DEF y
  <2> QED BY <1>1, <2>3, <2>4, <2>5, <2>6, SetStep
<1>7. ASSUME z.size > 0, Made(h, at(NewObject, z.size), k, z.size) PROVE ShmInv'
  <2> DEFINE o == NewObject
             y == at(o, z.size)
  <2>1. o \in Objects
    BY <1>7, NewIsUnused DEF Made
  <2> HIDE DEF at
  <2>2. y \in Handle /\ y.name = z.name /\ y.fd = o /\ y.addr = o /\ y.len = z.size
    BY <1>2, <1>3, <2>1
  <2>3. Sensible(y)
    BY <1>0, <1>1, <2>1, <2>2 DEF Sensible
  <2>4. Made(h, y, k, z.size) /\ k = Key(y.name)
    BY <1>7, <2>2
  <2> HIDE DEF y
  <2> QED BY <1>1, <1>2, <2>2, <2>3, <2>4, NewStep
<1>8. ASSUME ipc' = [ipc EXCEPT !.shm[h].fd = -1], UNCHANGED relied PROVE ShmInv'
  <2>1. Set(h, none)
    BY <1>0, <1>4, <1>8 DEF Set, ShmTypes
  <2> HIDE DEF none
  <2>2. Sensible(none)
    BY <1>0, <1>1, <1>4 DEF Sensible
  <2>3. OnItsObject(ipc.entry, z, none) /\ WithinSize(ipc.len, relied.sized, none)
    BY <1>0, <1>1, <1>4, FieldTypes DEF OnItsObject, WithinSize
  <2> QED BY <1>1, <2>1, <2>2, <2>3, SetStep
<1> QED BY <1>5, <1>6, <1>7, <1>8

\* A file is resized by the handle that asks, and its callers agree on that
\* size or no longer on any.
LEMMA SizesResize ==
    ASSUME NEW len \in [Objects -> Nat], NEW sized \in [Objects -> Nat \cup {-1, -2}],
           NEW shms \in [ShmHandles -> Handle], NEW h \in ShmHandles, NEW n \in Nat, NEW y \in Handle,
           SizesOf(len, shms, sized),
           \A i \in ShmHandles : shms[i].name \notin SegNames,
           \A i \in ShmHandles : shms[i].addr # Missing => shms[i].addr = shms[i].fd,
           shms[h].fd \in Objects, shms[h].how # "open_only",
           y.name = shms[h].name, y.how = shms[h].how, y.fd = shms[h].fd, y.size = n,
           y.addr = shms[h].addr, y.len = shms[h].len
    PROVE  SizesOf([len EXCEPT ![shms[h].fd] = n], [shms EXCEPT ![h] = y],
                   [sized EXCEPT ![shms[h].fd] = Agreed(@, n)])
<1> DEFINE o == shms[h].fd
           l == [len EXCEPT ![o] = n]
           s == [sized EXCEPT ![o] = Agreed(@, n)]
           now == [shms EXCEPT ![h] = y]
<1>1. l[o] = n /\ \A p \in Objects : p # o => l[p] = len[p] /\ s[p] = sized[p]
  OBVIOUS
<1>2. /\ s[o] \in {n, -2}
      /\ \A m \in Nat : sized[o] \in {m, -2} => s[o] \in {m, -2}
  BY DEF Agreed, Unsized, Differently
<1>3. now[h] = y /\ \A i \in ShmHandles : i # h => now[i] = shms[i]
  OBVIOUS
<1>4. \A i \in ShmHandles : now[i] \in Handle /\ now[i].name \notin SegNames
  BY <1>3
<1> HIDE DEF l, s, now
<1>5. \A p \in Objects : s[p] \in Nat => l[p] = s[p]
  BY <1>1, <1>2 DEF SizesOf
<1>6. ASSUME NEW i \in ShmHandles, now[i].how # "open_only", now[i].size # 0
      PROVE  now[i].fd \in Objects /\ s[now[i].fd] \in {now[i].size, -2}
  <2>1. CASE i = h
    BY <1>2, <1>3, <2>1
  <2>2. CASE i # h
    <3>1. shms[i].size \in Nat /\ shms[i].fd \in Objects /\ sized[shms[i].fd] \in {shms[i].size, -2}
      BY <1>3, <1>6, <2>2 DEF SizesOf, WithinSize, Handle
    <3> QED BY <1>1, <1>2, <1>3, <2>2, <3>1
  <2> QED BY <2>1, <2>2
<1>7. ASSUME NEW i \in ShmHandles, now[i].how # "open_only", now[i].addr # Missing
      PROVE  s[now[i].addr] \in {now[i].len, -2}
  <2>1. now[i].addr = shms[i].addr /\ now[i].len = shms[i].len /\ shms[i].how # "open_only"
    BY <1>3, <1>7
  <2>2. shms[i].len \in Nat /\ shms[i].addr \in Objects /\ sized[shms[i].addr] \in {shms[i].len, -2}
    BY <1>7, <2>1 DEF SizesOf, WithinSize, Handle
  <2> QED BY <1>1, <1>2, <2>1, <2>2
<1>8. \A i \in ShmHandles : WithinSize(l, s, now[i])
  BY <1>4, <1>6, <1>7 DEF WithinSize
<1>9. SizesOf(l, now, s)
  BY <1>5, <1>8 DEF SizesOf
<1> QED BY <1>9 DEF l, s, now

\* ztl_shm_truncate notes the size, and resizes what is not only opened.
LEMMA TruncateStep ==
    ASSUME ShmInv, NEW h \in ShmHandles, NEW size \in Nat, ztl_shm_truncate(h, size)
    PROVE  ShmInv'
<1> DEFINE z == ipc.shm[h]
           n == IF IsSegment(h) THEN size ELSE Wanted(h, size)
           y == [z EXCEPT !.size = n]
           resizes == ~IsSegment(h) /\ z.how # "open_only"
<1>0. ShmTypes /\ Sensible(z) /\ WithinSize(ipc.len, relied.sized, z) /\ z \in Handle
      /\ HandlesOf(ipc.names, ipc.shm) /\ OneNameOf(ipc.entry, ipc.shm, relied.unnamed)
      /\ SizesOf(ipc.len, ipc.shm, relied.sized) /\ LocksOf(ipc.locked, ipc.shm, relied.held, relied.dropped)
  BY HandleParts DEF ShmInv
<1>1. z.name # Nobody
  BY DEF ztl_shm_truncate, Opened, Nobody
<1>2. n \in Nat
  <2>1. CASE size = 0 /\ z.name \in FileNames /\ ipc.entry[z.name] # Missing /\ ~IsSegment(h)
    <3>1. Key(z.name) = z.name /\ z.name \in Entries
      BY <2>1, KeyOfName DEF IsSegment, Names
    <3> QED BY <1>0, <2>1, <3>1, FieldTypes DEF Wanted, Missing
  <2>2. CASE ~(size = 0 /\ z.name \in FileNames /\ ipc.entry[z.name] # Missing) \/ IsSegment(h)
    BY <2>2 DEF Wanted, Missing
  <2> QED BY <2>1, <2>2
<1> HIDE DEF n
<1>3. y \in Handle /\ y.name = z.name /\ y.how = z.how /\ y.fd = z.fd /\ y.size = n
      /\ y.addr = z.addr /\ y.len = z.len
  BY <1>0, <1>2 DEF Handle
<1>4. /\ resizes => z.fd \in Objects
      /\ ipc' = [ipc EXCEPT !.shm[h].size = n, !.len = IF resizes THEN [@ EXCEPT ![z.fd] = n] ELSE @]
      /\ relied' = IF resizes THEN [relied EXCEPT !.sized[z.fd] = Agreed(@, n)] ELSE relied
  BY DEF ztl_shm_truncate, n
<1>5. CASE ~resizes
  <2>1. Set(h, y)
    BY <1>0, <1>3, <1>4, <1>5 DEF Set, ShmTypes
  <2> HIDE DEF y
  <2>2. Sensible(y)
    BY <1>0, <1>3 DEF Sensible
  <2>3. OnItsObject(ipc.entry, z, y)
    BY <1>3 DEF OnItsObject
  <2>4. WithinSize(ipc.len, relied.sized, y)
    BY <1>0, <1>3, <1>5 DEF WithinSize, IsSegment
  <2> QED BY <1>3, <2>1, <2>2, <2>3, <2>4, SetStep
<1>6. CASE resizes
  <2> DEFINE o == z.fd
  <2>1. o \in Objects /\ z.name \notin SegNames
    BY <1>4, <1>6 DEF IsSegment
  <2>2. /\ ipc' = [ipc EXCEPT !.shm[h].size = n, !.len = [@ EXCEPT ![o] = n]]
        /\ relied' = [relied EXCEPT !.sized[o] = Agreed(@, n)]
    BY <1>4, <1>6
  <2>3. Agreed(relied.sized[o], n) \in Nat \cup {-1, -2}
    BY <1>2 DEF Agreed, Unsized, Differently
  <2>4. /\ ipc'.shm = [ipc.shm EXCEPT ![h] = y] /\ ipc'.names = ipc.names /\ ipc'.entry = ipc.entry
        /\ ipc'.len = [ipc.len EXCEPT ![o] = n] /\ ipc'.locked = ipc.locked
        /\ relied'.sized = [relied.sized EXCEPT ![o] = Agreed(@, n)]
        /\ relied'.held = relied.held /\ relied'.unnamed = relied.unnamed /\ relied'.dropped = relied.dropped
    BY <1>0, <2>2 DEF ShmTypes
  <2>5. ShmTypes'
    BY <1>0, <1>2, <1>3, <2>2, <2>3 DEF ShmTypes
  <2> HIDE DEF y
  <2>6. HandlesOf(ipc'.names, ipc'.shm)
    BY <1>0, <1>3, <2>4, FieldTypes, HandlesSet DEF Sensible
  <2>7. OneNameOf(ipc'.entry, ipc'.shm, relied'.unnamed)
    <3>1. OnItsObject(ipc.entry, z, y)
      BY <1>3 DEF OnItsObject
    <3> QED BY <1>0, <1>3, <2>4, <3>1, FieldTypes, OneNameSet
  <2>8. SizesOf(ipc'.len, ipc'.shm, relied'.sized)
    <3>1. /\ \A i \in ShmHandles : ipc.shm[i].name \notin SegNames
          /\ \A i \in ShmHandles : ipc.shm[i].addr # Missing => ipc.shm[i].addr = ipc.shm[i].fd
      <4>1. ipc.names \cap SegNames = {}
        BY <1>0, <1>1, <2>1, FieldTypes DEF Sensible
      <4>2. Nobody \notin SegNames
        BY ShmAssumption DEF Nobody
      <4> QED BY <1>0, <4>1, <4>2 DEF HandlesOf
    <3>2. ipc.len \in [Objects -> Nat] /\ relied.sized \in [Objects -> Nat \cup {-1, -2}]
          /\ ipc.shm \in [ShmHandles -> Handle] /\ SizesOf(ipc.len, ipc.shm, relied.sized)
      BY <1>0, FieldTypes
    <3>3. z.how # "open_only"
      BY <1>6
    <3>4. SizesOf([ipc.len EXCEPT ![o] = n], [ipc.shm EXCEPT ![h] = y], [relied.sized EXCEPT ![o] = Agreed(@, n)])
      BY <1>2, <1>3, <2>1, <3>1, <3>2, <3>3, SizesResize
    <3> QED BY <2>4, <3>4
  <2>9. LocksOf(ipc'.locked, ipc'.shm, relied'.held, relied'.dropped)
    <3>1. ipc.shm \in [ShmHandles -> Handle] /\ relied.held \in SUBSET ShmHandles
      BY <1>0, FieldTypes
    <3>2. LocksOf(ipc.locked, [ipc.shm EXCEPT ![h] = y], relied.held, relied.dropped)
      BY <1>0, <1>3, <3>1, LocksSet
    <3> QED BY <2>4, <3>2
  <2> QED BY <2>5, <2>6, <2>7, <2>8, <2>9 DEF ShmInv
<1> QED BY <1>5, <1>6

\* A closed handle.
LEMMA ClosedHandle ==
    Closed \in Handle /\ Closed.name = Nobody /\ Closed.fd = Missing /\ Closed.addr = Missing /\ Closed.size = 0
BY DEF Closed, Handle, Nobody, Missing, Ways

\* Closing a handle in the system is leaving all objects to the others.
LEMMA ClosingKeeps ==
    ASSUME ShmInv, NEW h \in ShmHandles
    PROVE  LET shms == [ipc.shm EXCEPT ![h] = Closed] IN
           /\ HandlesOf(ipc.names, shms) /\ OneNameOf(ipc.entry, shms, relied.unnamed)
           /\ SizesOf(ipc.len, shms, relied.sized)
<1>0. ShmTypes /\ HandlesOf(ipc.names, ipc.shm) /\ OneNameOf(ipc.entry, ipc.shm, relied.unnamed)
      /\ SizesOf(ipc.len, ipc.shm, relied.sized)
  BY DEF ShmInv
<1>1. Closed \in Handle /\ Closed.name = Nobody /\ Closed.fd = Missing /\ Closed.addr = Missing /\ Closed.size = 0
  BY ClosedHandle
<1>2. ipc.shm \in [ShmHandles -> Handle] /\ Missing \notin Objects /\ Nobody \notin SegNames
  BY <1>0, FieldTypes, ShmAssumption DEF Nobody
<1>3. OnItsObject(ipc.entry, ipc.shm[h], Closed) /\ WithinSize(ipc.len, relied.sized, Closed)
  BY <1>1, <1>2 DEF OnItsObject, WithinSize
<1>4. HandlesOf(ipc.names, [ipc.shm EXCEPT ![h] = Closed])
  BY <1>0, <1>1, <1>2, HandlesSet
<1>5. OneNameOf(ipc.entry, [ipc.shm EXCEPT ![h] = Closed], relied.unnamed)
  BY <1>0, <1>1, <1>2, <1>3, OneNameSet
<1>6. SizesOf(ipc.len, [ipc.shm EXCEPT ![h] = Closed], relied.sized)
  BY <1>0, <1>1, <1>2, <1>3, SizesSet
<1> QED BY <1>4, <1>5, <1>6

\* ztl_shm_release of a file closes it and so drops the lock of the process.
LEMMA ReleaseFileStep ==
    ASSUME ShmInv, NEW h \in ShmHandles, ReleaseFile(h)
    PROVE  ShmInv'
<1> DEFINE o == ipc.shm[h].fd
           now == [p \in Objects |-> IF p = o /\ ipc.locked[p] = h.proc THEN Nobody ELSE ipc.locked[p]]
           gone == relied.dropped \/ Believes(h.proc, o) \ {h} # {}
           shms == [ipc.shm EXCEPT ![h] = Closed]
<1>0. ShmTypes /\ LocksOf(ipc.locked, ipc.shm, relied.held, relied.dropped)
  BY DEF ShmInv
<1>1. /\ ipc' = [ipc EXCEPT !.locked = now, !.shm[h] = Closed]
      /\ relied' = [relied EXCEPT !.held = @ \ {h}, !.dropped = gone]
  BY <1>0 DEF ReleaseFile, Close, Forgotten, ShmTypes
<1>2. now \in [Objects -> Procs \cup {Nobody}]
  BY <1>0, FieldTypes
<1>3. \A p \in Objects : now[p] = IF p = o /\ ipc.locked[p] = h.proc THEN Nobody ELSE ipc.locked[p]
  OBVIOUS
<1>4. gone \in BOOLEAN /\ (gone = FALSE => relied.dropped = FALSE
        /\ \A i \in relied.held : i.proc = h.proc /\ ipc.shm[i].fd = ipc.shm[h].fd => i = h)
  <2>1. relied.dropped \in BOOLEAN
    BY <1>0, FieldTypes
  <2>2. Believes(h.proc, o) = {i \in relied.held : i.proc = h.proc /\ ipc.shm[i].fd = o}
    BY DEF Believes
  <2> QED BY <2>1, <2>2
<1> HIDE DEF now, gone
<1>5. /\ ipc'.shm = shms /\ ipc'.names = ipc.names /\ ipc'.entry = ipc.entry
      /\ ipc'.len = ipc.len /\ ipc'.locked = now
      /\ relied'.sized = relied.sized /\ relied'.unnamed = relied.unnamed
      /\ relied'.held = relied.held \ {h} /\ relied'.dropped = gone
  BY <1>0, <1>1 DEF ShmTypes
<1>6. ShmTypes'
  BY <1>0, <1>1, <1>2, <1>4, ClosedHandle DEF ShmTypes
<1>7. HandlesOf(ipc'.names, ipc'.shm) /\ OneNameOf(ipc'.entry, ipc'.shm, relied'.unnamed)
      /\ SizesOf(ipc'.len, ipc'.shm, relied'.sized)
  BY <1>5, ClosingKeeps
<1>8. LocksOf(ipc'.locked, ipc'.shm, relied'.held, relied'.dropped)
  <2>1. ipc.shm \in [ShmHandles -> Handle] /\ relied.held \in SUBSET ShmHandles /\ relied.dropped \in BOOLEAN
        /\ ipc.locked \in [Objects -> Procs \cup {Nobody}]
    BY <1>0, FieldTypes
  <2>2. LocksOf(now, ipc.shm, relied.held \ {h}, gone)
    <3>1. GivenUp(h, ipc.locked, ipc.shm, relied.held, relied.dropped, now, gone)
      BY <1>3, <1>4 DEF GivenUp
    <3> QED BY <1>0, <2>1, <3>1, LocksGiven
  <2>3. LocksOf(now, shms, relied.held \ {h}, gone)
    BY <2>1, <2>2, ClosedHandle, LocksSet
  <2> QED BY <1>5, <2>3
<1> QED BY <1>6, <1>7, <1>8 DEF ShmInv

\* ztl_shm_release of a segment removes it, unless it is no longer the one
\* of its key; there are no locks on segments.
LEMMA ReleaseSegmentStep ==
    ASSUME ShmInv, NEW h \in ShmHandles, ReleaseSegment(h)
    PROVE  ShmInv'
<1> DEFINE z == ipc.shm[h]
           k == Key(z.name)
           there == ipc.entry[k]
           now == [p \in Objects |-> IF p = z.fd /\ ipc.locked[p] = h.proc THEN Nobody ELSE ipc.locked[p]]
           shms == [ipc.shm EXCEPT ![h] = Closed]
           closed == [ipc EXCEPT !.locked = now, !.shm[h] = Closed]
<1>0. ShmTypes /\ LocksOf(ipc.locked, ipc.shm, relied.held, relied.dropped) /\ HandlesOf(ipc.names, ipc.shm)
      /\ Sensible(z)
  BY HandleParts DEF ShmInv
<1>1. z.name # Nobody /\ z.name \in SegNames /\ k \in Entries
  BY KeyOfName DEF ReleaseSegment, Opened, IsSegment, Names
<1>2. \/ /\ there # Missing
         /\ ipc' = [closed EXCEPT !.entry[k] = Missing]
         /\ relied' = [relied EXCEPT !.unnamed = @ \cup {there}]
      \/ ipc' = closed /\ UNCHANGED relied
  BY <1>0 DEF ReleaseSegment, Close, Unlink, ShmTypes
<1>3. now \in [Objects -> Procs \cup {Nobody}]
  BY <1>0, FieldTypes
<1>4. relied.held = {}
  <2>1. ipc.names = SegNames
    BY <1>0, <1>1, FieldTypes DEF Sensible
  <2>2. relied.held \subseteq ShmHandles
    BY <1>0, FieldTypes
  <2> QED BY <1>0, <2>1, <2>2 DEF HandlesOf, LocksOf
<1> HIDE DEF now
<1>5. /\ ipc'.shm = shms /\ ipc'.names = ipc.names /\ ipc'.len = ipc.len
      /\ relied'.sized = relied.sized /\ relied'.held = {}
  BY <1>0, <1>2, <1>4 DEF ShmTypes
<1>6. ipc.entry \in [Entries -> Objects \cup {Missing}] /\ shms \in [ShmHandles -> Handle]
  BY <1>0, FieldTypes, ClosedHandle
<1>7. ShmTypes'
  <2>1. there # Missing => there \in Objects
    BY <1>1, <1>6
  <2> DEFINE System(s) ==
        s \in [names : {FileNames, PlainNames, SegNames}, use : Uses,
               entry : [Entries -> Objects \cup {Missing}], len : [Objects -> Nat],
               locked : [Objects -> Procs \cup {Nobody}], shm : [ShmHandles -> Handle]]
  <2>2. System(closed)
    BY <1>0, <1>3, ClosedHandle DEF ShmTypes
  <2> HIDE DEF closed
  <2>3. System([closed EXCEPT !.entry[k] = Missing])
    BY <1>1, <2>2
  <2>4. System(ipc')
    BY <1>2, <2>2, <2>3
  <2>5. relied' \in [held : SUBSET ShmHandles, sized : [Objects -> Nat \cup {-1, -2}],
                    unnamed : SUBSET Objects, dropped : BOOLEAN]
    BY <1>0, <1>2, <2>1 DEF ShmTypes
  <2> QED BY <2>4, <2>5 DEF ShmTypes
<1>8. HandlesOf(ipc'.names, ipc'.shm) /\ SizesOf(ipc'.len, ipc'.shm, relied'.sized)
      /\ OneNameOf(ipc.entry, shms, relied.unnamed)
  BY <1>5, ClosingKeeps
<1>9. OneNameOf(ipc'.entry, ipc'.shm, relied'.unnamed)
  <2>1. CASE /\ there # Missing
             /\ ipc' = [closed EXCEPT !.entry[k] = Missing]
             /\ relied' = [relied EXCEPT !.unnamed = @ \cup {there}]
    <3>1. ipc'.entry = [ipc.entry EXCEPT ![k] = Missing] /\ relied'.unnamed = relied.unnamed \cup {there}
      BY <1>0, <2>1 DEF ShmTypes
    <3>2. OneNameOf([ipc.entry EXCEPT ![k] = Missing], shms, relied.unnamed \cup {ipc.entry[k]})
      BY <1>1, <1>6, <1>8, <2>1, OneNameUnlink
    <3> QED BY <1>5, <3>1, <3>2
  <2>2. CASE ipc' = closed /\ UNCHANGED relied
    <3>1. ipc'.entry = ipc.entry
      BY <1>0, <2>2 DEF ShmTypes
    <3> QED BY <1>5, <1>8, <2>2, <3>1
  <2> QED BY <1>2, <2>1, <2>2
<1>10. LocksOf(ipc'.locked, ipc'.shm, relied'.held, relied'.dropped)
  BY <1>5 DEF LocksOf
<1> QED BY <1>7, <1>8, <1>9, <1>10 DEF ShmInv

\* ztl_shm_remove takes a name away, and leaves the object to its handles.
LEMMA RemoveStep ==
    ASSUME ShmInv, NEW name \in ipc.names, ztl_shm_remove(name)
    PROVE  ShmInv'
<1>0. ShmTypes /\ HandlesOf(ipc.names, ipc.shm) /\ OneNameOf(ipc.entry, ipc.shm, relied.unnamed)
      /\ SizesOf(ipc.len, ipc.shm, relied.sized) /\ LocksOf(ipc.locked, ipc.shm, relied.held, relied.dropped)
  BY DEF ShmInv
<1>1. Key(name) = name /\ name \in Entries
  BY <1>0, FieldTypes, KeyOfName DEF ztl_shm_remove
<1>2. /\ ipc.entry[name] # Missing
      /\ ipc' = [ipc EXCEPT !.entry[name] = Missing]
      /\ relied' = [relied EXCEPT !.unnamed = @ \cup {ipc.entry[name]}]
  BY <1>1 DEF ztl_shm_remove, Unlink
<1>3. /\ ipc'.shm = ipc.shm /\ ipc'.names = ipc.names /\ ipc'.entry = [ipc.entry EXCEPT ![name] = Missing]
      /\ ipc'.len = ipc.len /\ ipc'.locked = ipc.locked
      /\ relied'.sized = relied.sized /\ relied'.held = relied.held /\ relied'.dropped = relied.dropped
      /\ relied'.unnamed = relied.unnamed \cup {ipc.entry[name]}
  BY <1>0, <1>2 DEF ShmTypes
<1>4. ipc.entry \in [Entries -> Objects \cup {Missing}] /\ ipc.shm \in [ShmHandles -> Handle]
  BY <1>0, FieldTypes
<1>5. ShmTypes'
  <2>1. ipc.entry[name] \in Objects
    BY <1>1, <1>2, <1>4
  <2> QED BY <1>0, <1>1, <1>2, <2>1 DEF ShmTypes
<1>6. OneNameOf([ipc.entry EXCEPT ![name] = Missing], ipc.shm, relied.unnamed \cup {ipc.entry[name]})
  BY <1>0, <1>1, <1>2, <1>4, OneNameUnlink
<1> QED BY <1>0, <1>3, <1>5, <1>6 DEF ShmInv

\* ztl_shm_trylock_exclusive locks for the process.
LEMMA TrylockStep ==
    ASSUME ShmInv, NEW h \in ShmHandles, ztl_shm_trylock_exclusive(h)
    PROVE  ShmInv'
<1> DEFINE o == ipc.shm[h].fd
<1>0. ShmTypes /\ HandlesOf(ipc.names, ipc.shm) /\ OneNameOf(ipc.entry, ipc.shm, relied.unnamed)
      /\ SizesOf(ipc.len, ipc.shm, relied.sized) /\ LocksOf(ipc.locked, ipc.shm, relied.held, relied.dropped)
  BY DEF ShmInv
<1>1. /\ ipc.shm[h].name # Nobody /\ ipc.shm[h].name \notin SegNames /\ o \in Objects
      /\ ipc.locked[o] \in {Nobody, h.proc}
      /\ ipc' = [ipc EXCEPT !.locked[o] = h.proc] /\ relied' = [relied EXCEPT !.held = @ \cup {h}]
  BY DEF ztl_shm_trylock_exclusive, Lockable, Opened, IsSegment
<1>2. /\ ipc'.shm = ipc.shm /\ ipc'.names = ipc.names /\ ipc'.entry = ipc.entry
      /\ ipc'.len = ipc.len /\ ipc'.locked = [ipc.locked EXCEPT ![o] = h.proc]
      /\ relied'.sized = relied.sized /\ relied'.unnamed = relied.unnamed /\ relied'.dropped = relied.dropped
      /\ relied'.held = relied.held \cup {h}
  BY <1>0, <1>1 DEF ShmTypes
<1>3. ShmTypes'
  BY <1>0, <1>1 DEF ShmTypes, Procs
<1>4. ipc.shm \in [ShmHandles -> Handle] /\ relied.held \in SUBSET ShmHandles
      /\ ipc.locked \in [Objects -> Procs \cup {Nobody}]
  BY <1>0, FieldTypes
<1>5. LocksOf([ipc.locked EXCEPT ![o] = h.proc], ipc.shm, relied.held \cup {h}, relied.dropped)
  BY <1>0, <1>1, <1>4, LocksTaken
<1> QED BY <1>0, <1>2, <1>3, <1>5 DEF ShmInv

\* ztl_shm_unlock_file gives the lock of the process up.
LEMMA UnlockStep ==
    ASSUME ShmInv, NEW h \in ShmHandles, ztl_shm_unlock_file(h)
    PROVE  ShmInv'
<1> DEFINE o == ipc.shm[h].fd
           now == [ipc.locked EXCEPT ![o] = IF @ = h.proc THEN Nobody ELSE @]
           gone == relied.dropped \/ Believes(h.proc, o) \ {h} # {}
<1>0. ShmTypes /\ HandlesOf(ipc.names, ipc.shm) /\ OneNameOf(ipc.entry, ipc.shm, relied.unnamed)
      /\ SizesOf(ipc.len, ipc.shm, relied.sized) /\ LocksOf(ipc.locked, ipc.shm, relied.held, relied.dropped)
  BY DEF ShmInv
<1>1. /\ o \in Objects
      /\ ipc' = [ipc EXCEPT !.locked = now]
      /\ relied' = [relied EXCEPT !.held = @ \ {h}, !.dropped = gone]
  BY <1>0 DEF ztl_shm_unlock_file, Lockable, Forgotten, ShmTypes
<1>2. ipc.shm \in [ShmHandles -> Handle] /\ relied.held \in SUBSET ShmHandles /\ relied.dropped \in BOOLEAN
      /\ ipc.locked \in [Objects -> Procs \cup {Nobody}]
  BY <1>0, FieldTypes
<1>3. now \in [Objects -> Procs \cup {Nobody}] /\ gone \in BOOLEAN
  BY <1>2
<1>4. GivenUp(h, ipc.locked, ipc.shm, relied.held, relied.dropped, now, gone)
  <2>1. Believes(h.proc, o) = {i \in relied.held : i.proc = h.proc /\ ipc.shm[i].fd = o}
    BY DEF Believes
  <2>2. gone = FALSE => relied.dropped = FALSE
          /\ \A i \in relied.held : i.proc = h.proc /\ ipc.shm[i].fd = o => i = h
    BY <1>2, <2>1
  <2>3. \A p \in Objects : now[p] = IF p = o /\ ipc.locked[p] = h.proc THEN Nobody ELSE ipc.locked[p]
    BY <1>2
  <2> HIDE DEF now, gone
  <2> QED BY <2>2, <2>3 DEF GivenUp
<1> HIDE DEF now, gone
<1>5. /\ ipc'.shm = ipc.shm /\ ipc'.names = ipc.names /\ ipc'.entry = ipc.entry
      /\ ipc'.len = ipc.len /\ ipc'.locked = now
      /\ relied'.sized = relied.sized /\ relied'.unnamed = relied.unnamed /\ relied'.dropped = gone
      /\ relied'.held = relied.held \ {h}
  BY <1>0, <1>1 DEF ShmTypes
<1>6. ShmTypes'
  BY <1>0, <1>1, <1>3 DEF ShmTypes
<1>7. LocksOf(now, ipc.shm, relied.held \ {h}, gone)
  BY <1>0, <1>2, <1>4, LocksGiven
<1> QED BY <1>0, <1>5, <1>6, <1>7 DEF ShmInv

\* A process dies, and with it its handles and its locks.
LEMMA DieStep ==
    ASSUME ShmInv, NEW p \in Procs, Die(p)
    PROVE  ShmInv'
<1> DEFINE own == {h \in ShmHandles : h.proc = p}
           shms == [h \in ShmHandles |-> IF h \in own THEN Closed ELSE ipc.shm[h]]
           now == [o \in Objects |-> IF ipc.locked[o] = p THEN Nobody ELSE ipc.locked[o]]
<1>0. ShmTypes /\ HandlesOf(ipc.names, ipc.shm) /\ OneNameOf(ipc.entry, ipc.shm, relied.unnamed)
      /\ SizesOf(ipc.len, ipc.shm, relied.sized) /\ LocksOf(ipc.locked, ipc.shm, relied.held, relied.dropped)
  BY DEF ShmInv
<1>1. ipc' = [ipc EXCEPT !.shm = shms, !.locked = now] /\ relied' = [relied EXCEPT !.held = @ \ own]
  BY <1>0 DEF Die, ShmTypes
<1>2. ipc.shm \in [ShmHandles -> Handle] /\ relied.held \in SUBSET ShmHandles
      /\ ipc.locked \in [Objects -> Procs \cup {Nobody}] /\ Missing \notin Objects /\ Nobody \notin SegNames
  BY <1>0, FieldTypes, ShmAssumption DEF Nobody
<1>3. shms \in [ShmHandles -> Handle] /\ now \in [Objects -> Procs \cup {Nobody}]
  BY <1>2, ClosedHandle
<1>4. \A h \in ShmHandles : \/ h \notin own /\ shms[h] = ipc.shm[h]
                            \/ /\ h \in own /\ shms[h].name = Nobody /\ shms[h].fd = Missing
                               /\ shms[h].addr = Missing /\ shms[h].size = 0
  BY ClosedHandle
<1> HIDE DEF shms, now
<1>5. /\ ipc'.shm = shms /\ ipc'.names = ipc.names /\ ipc'.entry = ipc.entry
      /\ ipc'.len = ipc.len /\ ipc'.locked = now
      /\ relied'.sized = relied.sized /\ relied'.unnamed = relied.unnamed /\ relied'.dropped = relied.dropped
      /\ relied'.held = relied.held \ own
  BY <1>0, <1>1 DEF ShmTypes
<1>6. ShmTypes'
  BY <1>0, <1>1, <1>3 DEF ShmTypes
<1>7. HandlesOf(ipc.names, shms)
  <2> SUFFICES ASSUME NEW h \in ShmHandles
               PROVE  /\ shms[h].name = Nobody => shms[h].fd = Missing /\ shms[h].addr = Missing
                      /\ shms[h].name # Nobody => shms[h].name \in ipc.names
                      /\ shms[h].name # Nobody /\ shms[h].name \notin SegNames => shms[h].fd # Missing
                      /\ shms[h].addr # Missing => shms[h].addr = shms[h].fd
    BY DEF HandlesOf
  <2>1. CASE shms[h] = ipc.shm[h]
    BY <1>0, <2>1 DEF HandlesOf
  <2>2. CASE shms[h].name = Nobody /\ shms[h].fd = Missing /\ shms[h].addr = Missing
    BY <2>2
  <2> QED BY <1>4, <2>1, <2>2
<1>8. OneNameOf(ipc.entry, shms, relied.unnamed)
  BY <1>0, <1>2, <1>4 DEF OneNameOf
<1>9. SizesOf(ipc.len, shms, relied.sized)
  BY <1>0, <1>2, <1>4 DEF SizesOf, WithinSize
<1>10. LocksOf(now, shms, relied.held \ own, relied.dropped)
  BY <1>0, <1>2, <1>4 DEF LocksOf, now
<1> QED BY <1>5, <1>6, <1>7, <1>8, <1>9, <1>10 DEF ShmInv

-----------------------------------------------------------------------------
(* The theorems *)

\* Shared memory, its names, sizes and locks are as the invariant says,
\* whatever processes do with ztl_shm.c and wherever they die.
THEOREM ShmInvariant == ShmSpec => []ShmInv
<1>1. ShmInit => ShmInv
  <2> SUFFICES ASSUME ShmInit PROVE ShmInv
    OBVIOUS
  <2>1. PICK names \in {FileNames, PlainNames, SegNames}, use \in Uses :
          /\ ipc = [names |-> names, use |-> use, entry |-> [e \in Entries |-> Missing], len |-> [o \in Objects |-> 0],
                    locked |-> [o \in Objects |-> Nobody], shm |-> [h \in ShmHandles |-> Closed]]
          /\ relied = [held |-> {}, sized |-> [o \in Objects |-> Unsized], unnamed |-> {}, dropped |-> FALSE]
    BY DEF ShmInit
  <2>2. ShmTypes
    BY <2>1, ClosedHandle DEF ShmTypes, Unsized
  <2>3. /\ \A h \in ShmHandles : ipc.shm[h].name = Nobody /\ ipc.shm[h].fd = Missing
                                 /\ ipc.shm[h].addr = Missing /\ ipc.shm[h].size = 0
        /\ \A e \in Entries : ipc.entry[e] = Missing
        /\ \A o \in Objects : relied.sized[o] = -1
        /\ relied.held = {}
    BY <2>1, ClosedHandle DEF Unsized
  <2>4. Missing \notin Objects /\ Nobody \notin SegNames
    BY ShmAssumption DEF Missing, Nobody
  <2>5. HandlesOf(ipc.names, ipc.shm) /\ OneNameOf(ipc.entry, ipc.shm, relied.unnamed)
    BY <2>3, <2>4 DEF HandlesOf, OneNameOf
  <2>6. SizesOf(ipc.len, ipc.shm, relied.sized)
    BY <2>3, <2>4 DEF SizesOf, WithinSize
  <2>7. LocksOf(ipc.locked, ipc.shm, relied.held, relied.dropped)
    BY <2>3 DEF LocksOf
  <2> QED BY <2>2, <2>5, <2>6, <2>7 DEF ShmInv
<1>2. ShmInv /\ [ShmNext]_shmVars => ShmInv'
  <2> SUFFICES ASSUME ShmInv, [ShmNext]_shmVars PROVE ShmInv'
    OBVIOUS
  <2>1. ipc.use.handles \subseteq ShmHandles /\ ipc.use.sizes \subseteq Nat
    BY FieldTypes, ShmAssumption DEF ShmInv
  <2>2. CASE UNCHANGED shmVars
    BY <2>2 DEF shmVars, ShmInv, ShmTypes
  <2>3. ASSUME NEW h \in ipc.use.handles, NEW name \in ipc.names, NEW how \in Ways, ztl_shm_create(h, name, how)
        PROVE  ShmInv'
    BY <2>1, <2>3, CreateStep
  <2>4. ASSUME NEW h \in ipc.use.handles, NEW size \in ipc.use.sizes, ztl_shm_truncate(h, size) PROVE ShmInv'
    BY <2>1, <2>4, TruncateStep
  <2>5. ASSUME NEW h \in ipc.use.handles, NEW write \in BOOLEAN, MapFile(h, write) PROVE ShmInv'
    BY <2>1, <2>5, MapFileStep
  <2>6. ASSUME NEW h \in ipc.use.handles, MapSegment(h) PROVE ShmInv'
    BY <2>1, <2>6, MapSegmentStep
  <2>7. ASSUME NEW h \in ipc.use.handles, ztl_shm_detach(h) PROVE ShmInv'
    BY <2>1, <2>7, DetachStep
  <2>8. ASSUME NEW h \in ipc.use.handles, ReleaseFile(h) PROVE ShmInv'
    BY <2>1, <2>8, ReleaseFileStep
  <2>9. ASSUME NEW h \in ipc.use.handles, ReleaseSegment(h) PROVE ShmInv'
    BY <2>1, <2>9, ReleaseSegmentStep
  <2>10. ASSUME NEW h \in ipc.use.handles, ztl_shm_trylock_exclusive(h) PROVE ShmInv'
    BY <2>1, <2>10, TrylockStep
  <2>11. ASSUME NEW h \in ipc.use.handles, ztl_shm_unlock_file(h) PROVE ShmInv'
    BY <2>1, <2>11, UnlockStep
  <2>12. ASSUME NEW name \in ipc.names, ztl_shm_remove(name) PROVE ShmInv'
    BY <2>12, RemoveStep
  <2>13. ASSUME NEW h \in ShmHandles, Die(h.proc) PROVE ShmInv'
    BY <2>13, DieStep DEF Procs
  <2> QED BY <2>2, <2>3, <2>4, <2>5, <2>6, <2>7, <2>8, <2>9, <2>10, <2>11, <2>12, <2>13 DEF ShmNext, Ways
<1> QED BY <1>1, <1>2, PTL DEF ShmSpec

\* Processes that map one name share its object unless it was removed in
\* between, mappings stay inside their object unless callers gave different
\* sizes or only opened it, and one process at most thinks it has the lock,
\* unless one gave its lock away: ShmSound, for any processes and handles.
THEOREM ShmIsSound == ShmSpec => []ShmSound
<1>1. ShmInv => ShmSound
  <2> SUFFICES ASSUME ShmInv PROVE ShmSound
    OBVIOUS
  <2>0. ShmTypes /\ HandlesOf(ipc.names, ipc.shm) /\ OneNameOf(ipc.entry, ipc.shm, relied.unnamed)
        /\ SizesOf(ipc.len, ipc.shm, relied.sized) /\ LocksOf(ipc.locked, ipc.shm, relied.held, relied.dropped)
    BY DEF ShmInv
  <2>1. ASSUME NEW h \in ShmHandles, ipc.shm[h].addr # Missing
        PROVE  /\ ipc.shm[h] \in Handle /\ ipc.shm[h].addr \in Objects /\ ipc.shm[h].addr = ipc.shm[h].fd
               /\ ipc.len[ipc.shm[h].addr] \in Nat /\ ipc.shm[h].len \in Nat
    BY <2>0, <2>1, FieldTypes DEF HandlesOf, Handle
  <2>2. ASSUME NEW h \in ShmHandles, ipc.shm[h].addr # Missing, ipc.shm[h].addr # ipc.entry[Key(ipc.shm[h].name)]
        PROVE  ipc.shm[h].addr \in relied.unnamed
    BY <2>0, <2>1, <2>2 DEF OneNameOf
  <2>3. ASSUME NEW h \in ShmHandles, NEW i \in ShmHandles, ipc.shm[h].addr # Missing, ipc.shm[i].addr # Missing,
               ipc.shm[h].addr = ipc.shm[i].addr
        PROVE  Key(ipc.shm[h].name) = Key(ipc.shm[i].name)
    BY <2>0, <2>1, <2>3 DEF OneNameOf
  <2>4. ASSUME NEW h \in ShmHandles, ipc.shm[h].addr # Missing
        PROVE  \/ ipc.shm[h].len <= ipc.len[ipc.shm[h].addr]
               \/ ipc.shm[h].how = "open_only"
               \/ relied.sized[ipc.shm[h].addr] = Differently
    <3>1. WithinSize(ipc.len, relied.sized, ipc.shm[h])
      BY <2>0 DEF SizesOf
    <3>2. \A o \in Objects : relied.sized[o] \in Nat => ipc.len[o] = relied.sized[o]
      BY <2>0 DEF SizesOf
    <3>3. CASE ipc.shm[h].name \in SegNames
      BY <2>1, <2>4, <3>1, <3>3 DEF WithinSize
    <3>4. CASE ipc.shm[h].name \notin SegNames
      BY <2>1, <2>4, <3>1, <3>2, <3>4 DEF WithinSize, Differently
    <3> QED BY <3>3, <3>4
  <2>5. ASSUME NEW h \in relied.held, NEW i \in relied.held, ipc.shm[h].fd = ipc.shm[i].fd
        PROVE  h.proc = i.proc \/ relied.dropped
    <3>1. relied.dropped \in BOOLEAN
      BY <2>0, FieldTypes
    <3>2. relied.dropped = FALSE => h.proc = i.proc
      BY <2>0, <2>5 DEF LocksOf
    <3> QED BY <3>1, <3>2
  <2> QED BY <2>2, <2>3, <2>4, <2>5 DEF ShmSound
<1> QED BY <1>1, ShmInvariant, PTL
=============================================================================
