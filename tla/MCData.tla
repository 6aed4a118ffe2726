------------------------------- MODULE MCData -------------------------------
(***************************************************************************)
(* The passive parts of the library, which share no state with each other: *)
(* locks and pools under concurrent callers, timers, hash tables, the map, *)
(* the memory database and its shared memory, containers and texts.  A     *)
(* behaviour exercises one of them, named by part; the variables of the    *)
(* others stay as they are, Off or initial.                                *)
(***************************************************************************)
EXTENDS Locks, MemPool, Shm, Dict, MemDB

CONSTANTS TableVals, MaxNodes, InitSize, ForceResize,
          MapKeys, MapVals, Copies, MapReserve,
          TimerNodes, Delays, TimerStart, MaxTick, MaxAdd, TimerWord

VARIABLES part,
          tab, mem, titer, tmap, lost,
          cmap, pairs,
          et, work, idle, tm, clock, adds, expiring, foreign, fired, broken,
          obj, spec

Off == "off"

KeyHash == [k \in Keys |-> k - 1]     \* 0, 1, 2: two keys of three share a bucket of two

Tbl == INSTANCE Table WITH Vals <- TableVals
Map == INSTANCE CMap
Tmr == INSTANCE EvTimer
CONSTANTS LinkNodes, RingValues, DlValues, DlReserve, HeapElems, HeapHeight,
          PoolSize, PoolHead, DataHead, LargeNode, PoolAlign, TiredAt, LargeScan,
          MaxPoolBlocks, MaxLarge, ArrayHead, AllocSizes, EltSize, ArrayNum, ArrayValues, MaxElts, MaxPieces,
          BufBytes, MaxBuf, BufWord, FixedSize, SepLens, NumWidths, NumReserve,
          ZTL_BIT_UNIT, BitNums, MaxBit
LinkKey == [n \in LinkNodes |-> n \div 2]
HeapPriority == [e \in HeapElems |-> e \div 2]
Lnk == INSTANCE Linked
Rng == INSTANCE Ring
Dls == INSTANCE DList
Hp  == INSTANCE Heap
Arr == INSTANCE Arrays
Buf == INSTANCE Buffers
Bts == INSTANCE Bitset

\* Two processes that size and map, or lock, where one has two handles.
TwoProcesses == {[proc |-> "a", id |-> 1], [proc |-> "a", id |-> 2], [proc |-> "b", id |-> 1]}
LockOrMap == {[handles |-> TwoProcesses, sizes |-> {}],
              [handles |-> {h \in TwoProcesses : h.id = 1}, sizes |-> {0, 1}]}

CONSTANTS FirstDate, DayCount, RangeSize, MaxDs, DsPerAlloc, PrintfBuf, MaxArgs,
          TextChars, MaxText, MaxDigits, SizeMax, MaxSorted, ZTL_CONFIG_DEFAULT_ITEMS,
          PlainBytes, MaxPlain
DayOffsets == {-366, -1, 1, 31}
Seconds == {-45, 75, 3570}
DsTexts == {<<>>, <<"a">>, <<" ", "b">>, <<"b", " ", " ">>}
ArgTexts == UNION {[1..k -> {"a", " ", "q", "s"}] : k \in {0, 2}} \cup {<<c>> : c \in {"b", "bell", "byte"}}
ConfComment == "#"
ConfDelimiter == "="
ConfLines == {<<"k", "=", "1", "\r", "\n">>, <<" ", "k", " ", "=", "2", " ">>, <<"K", "=", "1", "=", "2">>,
              <<"#", "k", "=", "1">>, <<"k", "=">>, <<"=", "k">>, <<"k">>, <<>>,
              <<"\t", "k", "k", "=", "\t", "1", "\t", "2">>}
Dat == INSTANCE Dates
Str == INSTANCE DStr
Txt == INSTANCE Texts
B64 == INSTANCE Base64

tableVars == <<tab, mem, titer, tmap, lost>>
cmapVars == <<cmap, pairs>>
timerVars == <<et, work, idle, tm, clock, adds, expiring, foreign, fired, broken>>
objVars == <<obj, spec>>
vars == <<part, lockVars, mpVars, shmVars, dictVars, tableVars, cmapVars, timerVars, dbVars, objVars>>

LocksOff == LockInit
PoolOff  == MpInit
ShmOff   == ShmInit /\ ipc.names = FileNames /\ ipc.use.sizes = {}
DictOff  == DictInit
TableOff == tab = Off /\ mem = Off /\ titer = Off /\ tmap = Off /\ lost = Off
MapOff   == cmap = Off /\ pairs = Off
TimerOff == /\ et = Off /\ work = Off /\ idle = Off /\ tm = Off /\ clock = Off /\ adds = Off
            /\ expiring = Off /\ foreign = Off /\ fired = Off /\ broken = Off
DbOff    == DbInit
ObjOff   == obj = Off /\ spec = Off

Init ==
    \/ /\ part = "locks" /\ LockInit
       /\ PoolOff /\ ShmOff /\ DictOff /\ TableOff /\ MapOff /\ TimerOff /\ DbOff /\ ObjOff
    \/ /\ part = "mempool" /\ MpInit
       /\ LocksOff /\ ShmOff /\ DictOff /\ TableOff /\ MapOff /\ TimerOff /\ DbOff /\ ObjOff
    \/ /\ part = "shm" /\ ShmInit
       /\ LocksOff /\ PoolOff /\ DictOff /\ TableOff /\ MapOff /\ TimerOff /\ DbOff /\ ObjOff
    \/ /\ part = "dict" /\ DictInit
       /\ LocksOff /\ PoolOff /\ ShmOff /\ TableOff /\ MapOff /\ TimerOff /\ DbOff /\ ObjOff
    \/ /\ part = "table" /\ Tbl!Init
       /\ LocksOff /\ PoolOff /\ ShmOff /\ DictOff /\ MapOff /\ TimerOff /\ DbOff /\ ObjOff
    \/ /\ part = "map" /\ Map!Init
       /\ LocksOff /\ PoolOff /\ ShmOff /\ DictOff /\ TableOff /\ TimerOff /\ DbOff /\ ObjOff
    \/ /\ part = "timer" /\ Tmr!Init
       /\ LocksOff /\ PoolOff /\ ShmOff /\ DictOff /\ TableOff /\ MapOff /\ DbOff /\ ObjOff
    \/ /\ part = "memdb" /\ DbInit
       /\ LocksOff /\ PoolOff /\ ShmOff /\ DictOff /\ TableOff /\ MapOff /\ TimerOff /\ ObjOff
    \/ /\ \/ part = "linklist" /\ Lnk!LinkInit
          \/ part = "ring" /\ Rng!RingInit
          \/ part = "dlist" /\ Dls!DlInit
          \/ part = "heap" /\ Hp!HeapInit
          \/ part = "array" /\ Arr!ArrInit
          \/ part = "buffer" /\ Buf!BufInit
          \/ part = "bufcat" /\ Buf!CatInit
          \/ part = "msgbuf" /\ Buf!MbInit
          \/ part = "vector" /\ Buf!VecInit
          \/ part = "bitset" /\ Bts!BitInit
          \/ part = "dates" /\ Dat!DateInit
          \/ part = "clock" /\ Dat!ClockInit
          \/ part = "dstr" /\ Str!DsInit
          \/ part = "args" /\ Str!ArgInit
          \/ part = "text" /\ Txt!TextInit
          \/ part = "number" /\ Txt!NumInit
          \/ part = "search" /\ Txt!SortedInit
          \/ part = "config" /\ Txt!ConfInit
          \/ part = "base64" /\ B64!PlainInit
       /\ LocksOff /\ PoolOff /\ ShmOff /\ DictOff /\ TableOff /\ MapOff /\ TimerOff /\ DbOff

\* One action per part; the objects that are one value each share two variables.
KeepOthers == UNCHANGED <<part, dictVars, tableVars, cmapVars, timerVars, dbVars>>
LocksPart == part = "locks" /\ LockNext /\ UNCHANGED <<mpVars, shmVars, objVars>> /\ KeepOthers
PoolPart == part = "mempool" /\ MpNext /\ UNCHANGED <<lockVars, shmVars, objVars>> /\ KeepOthers
ShmPart == part = "shm" /\ ShmNext /\ UNCHANGED <<lockVars, mpVars, objVars>> /\ KeepOthers
KeepShared == UNCHANGED <<part, lockVars, mpVars, shmVars>>
DictPart == part = "dict" /\ DictNext /\ KeepShared /\ UNCHANGED <<tableVars, cmapVars, timerVars, dbVars, objVars>>
TablePart == part = "table" /\ Tbl!Next /\ KeepShared /\ UNCHANGED <<dictVars, cmapVars, timerVars, dbVars, objVars>>
MapPart == part = "map" /\ Map!Next /\ KeepShared /\ UNCHANGED <<dictVars, tableVars, timerVars, dbVars, objVars>>
TimerPart == part = "timer" /\ Tmr!Next /\ KeepShared /\ UNCHANGED <<dictVars, tableVars, cmapVars, dbVars, objVars>>
DbPart == part = "memdb" /\ DbNext /\ KeepShared /\ UNCHANGED <<dictVars, tableVars, cmapVars, timerVars, objVars>>
ObjPart ==
    /\ \/ part = "linklist" /\ Lnk!LinkNext
       \/ part = "ring" /\ Rng!RingNext
       \/ part = "dlist" /\ Dls!DlNext
       \/ part = "heap" /\ Hp!HeapNext
       \/ part = "array" /\ Arr!ArrNext
       \/ part = "buffer" /\ Buf!BufNext
       \/ part = "bufcat" /\ Buf!CatNext
       \/ part = "msgbuf" /\ Buf!MbNext
       \/ part = "vector" /\ Buf!VecNext
       \/ part = "bitset" /\ Bts!BitNext
       \/ part = "dates" /\ Dat!DateNext
       \/ part = "clock" /\ Dat!ClockNext
       \/ part = "dstr" /\ Str!DsNext
       \/ part = "args" /\ Str!ArgNext
       \/ part = "text" /\ Txt!TextNext
       \/ part = "number" /\ Txt!NumNext
       \/ part = "search" /\ Txt!SortedNext
       \/ part = "config" /\ Txt!ConfNext
       \/ part = "base64" /\ B64!PlainNext
    /\ UNCHANGED <<lockVars, mpVars, shmVars>> /\ KeepOthers

Next == LocksPart \/ PoolPart \/ ShmPart \/ DictPart \/ TablePart \/ MapPart \/ TimerPart \/ DbPart \/ ObjPart
Spec == Init /\ [][Next]_vars

\* The ways into states the code is known to spoil are not followed further.
Keep == (part = "table" => ~Tbl!Spoiled) /\ (part = "memdb" => Unharmed)

(***************************************************************************)
(* TableIsMapUnspoiled of Table: until a node is recycled while a chain    *)
(* still reaches it, ztl_table.c holds what was inserted and not removed.  *)
(***************************************************************************)
TableIsMapUnspoiled == part = "table" => Tbl!TableIsMapUnspoiled

(***************************************************************************)
(* MapSound of CMap: after any additions and deletions the tree under      *)
(* ztl_map.c is a balanced red-black tree of exactly the pairs added.      *)
(***************************************************************************)
MapSound == part = "map" => Map!MapSound

(***************************************************************************)
(* TimersExact of EvTimer: over a clock that wraps around, timers fire     *)
(* once, when due, in order, unless deleted, whichever thread adds and     *)
(* deletes, until two threads meet in the tree or the lists.               *)
(***************************************************************************)
TimersExact == part = "timer" => Tmr!TimersExact

(***************************************************************************)
(* Lists, rings, heaps, arrays in a pool, buffers, vectors, bits hold what *)
(* was put in and not taken out, in order, until a call their code does    *)
(* not serve (harm, in pools, buffers and vectors; each module names those *)
(* calls, and the calls that take out another element than the caller's):  *)
(* the property of each module, for the part that runs.                    *)
(***************************************************************************)
ContainersExact ==
    /\ part = "linklist" => Lnk!LinkExact
    /\ part = "ring" => Rng!RingExact
    /\ part = "dlist" => Dls!DlExact
    /\ part = "heap" => Hp!HeapExact
    /\ part = "array" => Arr!ArraysExact
    /\ part \in {"buffer", "bufcat"} => Buf!Sound
    /\ part = "msgbuf" => Buf!MbExact
    /\ part = "vector" => Buf!VecExact
    /\ part = "bitset" => Bts!BitsExact

(***************************************************************************)
(* Dates, times, dynamic strings, command lines, paths, numbers,           *)
(* configuration lines and base64 convert and convert back, against the    *)
(* calendar or the text they stand for: the property of each part (of a    *)
(* configuration until its list has to grow).                              *)
(***************************************************************************)
TextsExact ==
    /\ part = "dates" => Dat!CalendarExact
    /\ part = "clock" => Dat!ClockExact
    /\ part = "dstr" => Str!DsExact
    /\ part = "args" => Str!ArgsExact
    /\ part = "text" => Txt!TextExact
    /\ part = "number" => Txt!NumExact
    /\ part = "search" => Txt!SearchExact
    /\ part = "config" => Txt!ConfExact
    /\ part = "base64" => B64!Base64Exact
=============================================================================
