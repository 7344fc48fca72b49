------------------------------ MODULE FileCache ------------------------------
(***************************************************************************)
(* The file cache (cache/file/file.go), one step per system call.  Set     *)
(* writes <path>-tmp and renames it over <path>, Get opens <path> and      *)
(* reads it in several calls, Purge stats and removes it.  Several clients *)
(* (request goroutines, seed workers, other processes) share the           *)
(* directory; any of them can be cancelled, fail on a system call or die.  *)
(***************************************************************************)
EXTENDS Naturals

CONSTANTS
  Clients,   \* goroutines and processes that share the directory
  Keys,      \* cache keys
  Vals,      \* encoded tiles
  Beyond,    \* the keys with z > MaxZoom
  MayWrite,  \* MayWrite[k]: the clients that set or purge key k
  Inodes,    \* files of the file system, linked or only open
  Size,      \* Size[v]: the chunks of v, the reads ReadAll needs for it
  Absent,    \* no value: past the end of a file
  Unsampled, \* a Get that has not opened its file
  NoInode    \* no file

ASSUME FileCacheAssumption ==
  /\ Absent \notin Vals
  /\ Unsampled \notin Vals \cup {Absent}
  /\ NoInode \notin Inodes
  /\ Size \in [Vals -> {1, 2}]
  /\ Beyond \subseteq Keys
  /\ MayWrite \in [Keys -> SUBSET Clients]

\* the contents of a file, chunk by chunk; Absent is past its end
Chunks   == {1, 2}
Contents == [Chunks -> Vals \cup {Absent}]
Empty    == [p \in Chunks |-> Absent]
Whole(v) == [p \in Chunks |-> IF p <= Size[v] THEN v ELSE Absent]

\* file contents after n chunks of v are written at offset 0
Written(d, v, n) == [p \in Chunks |-> IF p <= n THEN v ELSE d[p]]

VARIABLES
  dest,  \* the inode at each key's path, or NoInode
  tmp,   \* the inode at each key's path with "-tmp", or NoInode
  data,  \* the contents of each inode
  pc,    \* where each client is in its operation
  req,   \* the operation each client is in
  fd,    \* the inode the client has open, or NoInode
  got,   \* what a Get has read so far
  pos,   \* the chunk a Get reads next
  ans    \* the answer to the client's last operation

Store == INSTANCE TileStore WITH
  link  <- {},
  tiles <- [k \in Keys |-> IF dest[k] = NoInode THEN Absent ELSE data[dest[k]][1]],
  seen  <- [c \in Clients |-> IF pc[c] \in {"ctx", "read"} THEN data[fd[c]][1]
                              ELSE Unsampled]

fileVars   == <<dest, tmp, data>>
clientVars == <<pc, req, fd, got, pos, ans>>
vars == <<fileVars, clientVars>>

Init ==
  /\ dest = [k \in Keys |-> NoInode]
  /\ tmp = [k \in Keys |-> NoInode]
  /\ data = [i \in Inodes |-> Empty]
  /\ pc = [c \in Clients |-> "idle"]
  /\ req = [c \in Clients |-> Store!Idle]
  /\ fd = [c \in Clients |-> NoInode]
  /\ got = [c \in Clients |-> Empty]
  /\ pos = [c \in Clients |-> 1]
  /\ ans = [c \in Clients |-> Store!Answer("none")]

\* an inode is reused once it is neither linked nor open
Free(i) ==
  /\ \A k \in Keys : dest[k] # i /\ tmp[k] # i
  /\ \A c \in Clients : fd[c] # i

Goto(c, p) == pc' = [pc EXCEPT ![c] = p]

Return(c, a) ==
  /\ Goto(c, "idle")
  /\ req' = [req EXCEPT ![c] = Store!Idle]
  /\ fd' = [fd EXCEPT ![c] = NoInode]
  /\ got' = [got EXCEPT ![c] = Empty]
  /\ pos' = [pos EXCEPT ![c] = 1]
  /\ ans' = [ans EXCEPT ![c] = a]

At(c, p) == pc[c] = p

Call(c, r) ==
  /\ At(c, "idle")
  /\ r.op # "get" => c \in MayWrite[r.key]
  /\ Goto(c, r.op)
  /\ req' = [req EXCEPT ![c] = r]
  /\ ans' = [ans EXCEPT ![c] = Store!Answer("none")]
  /\ UNCHANGED <<fileVars, fd, got, pos>>

\* The context is cancelled where the code asks it, or a system call fails.  A
\* failed Stat is no error, and a key beyond MaxZoom is not looked at.
Fails(c) ==
  /\ pc[c] \notin {"idle", "write", "purge"}
  /\ At(c, "set") => req[c].key \notin Beyond
  /\ Return(c, Store!Answer("error"))
  /\ UNCHANGED fileVars

-----------------------------------------------------------------------------
(* Set.                                                                       *)

\* mutant: no check of MaxZoom
Bug_SetBegin(c) ==
  /\ At(c, "set")
  /\ Goto(c, "create") /\ UNCHANGED <<req, fd, got, pos, ans>>
  /\ UNCHANGED fileVars

\* the key is beyond MaxZoom: nothing is written.  Otherwise the directory is made.
SetBegin(c) ==
  /\ At(c, "set")
  /\ IF req[c].key \in Beyond
       THEN Return(c, Store!Answer("ok"))
       ELSE Goto(c, "create") /\ UNCHANGED <<req, fd, got, pos, ans>>
  /\ UNCHANGED fileVars

\* mutant: a temporary file with a name nobody renames
Bug_SetCreate(c) ==
  /\ At(c, "create")
  /\ \E i \in Inodes :
       /\ Free(i)
       /\ data' = [data EXCEPT ![i] = Empty]
       /\ fd' = [fd EXCEPT ![c] = i]
  /\ Goto(c, "write")
  /\ UNCHANGED <<dest, tmp, req, got, pos, ans>>

\* os.Create: a new file, or the existing one truncated
SetCreate(c) ==
  /\ At(c, "create")
  /\ LET k == req[c].key IN
     \E i \in Inodes :
       /\ IF tmp[k] = NoInode THEN Free(i) ELSE i = tmp[k]
       /\ tmp' = [tmp EXCEPT ![k] = i]
       /\ data' = [data EXCEPT ![i] = Empty]
       /\ fd' = [fd EXCEPT ![c] = i]
  /\ Goto(c, "write")
  /\ UNCHANGED <<dest, req, got, pos, ans>>

\* f.Write
SetWrite(c) ==
  /\ At(c, "write")
  /\ data' = [data EXCEPT ![fd[c]] = Written(@, req[c].val, Size[req[c].val])]
  /\ Goto(c, "close")
  /\ UNCHANGED <<dest, tmp, req, fd, got, pos, ans>>

\* mutant: the error of f.Write is not looked at
Bug_SetWriteFails(c) ==
  /\ At(c, "write")
  /\ \E n \in 0..(Size[req[c].val] - 1) :
        data' = [data EXCEPT ![fd[c]] = Written(@, req[c].val, n)]
  /\ Goto(c, "close")
  /\ UNCHANGED <<dest, tmp, req, fd, got, pos, ans>>

\* f.Write fails after part of the value was written: the temp file stays
SetWriteFails(c) ==
  /\ At(c, "write")
  /\ \E n \in 0..(Size[req[c].val] - 1) :
        data' = [data EXCEPT ![fd[c]] = Written(@, req[c].val, n)]
  /\ Return(c, Store!Answer("error"))
  /\ UNCHANGED <<dest, tmp>>

\* f.Close
SetClose(c) ==
  /\ At(c, "close")
  /\ fd' = [fd EXCEPT ![c] = NoInode]
  /\ Goto(c, "rename")
  /\ UNCHANGED <<fileVars, req, got, pos, ans>>

\* os.Rename: fails when somebody else moved the temp file
SetRename(c) ==
  /\ At(c, "rename")
  /\ LET k == req[c].key IN
     IF tmp[k] = NoInode
       THEN Return(c, Store!Answer("error")) /\ UNCHANGED <<dest, tmp>>
       ELSE /\ dest' = [dest EXCEPT ![k] = tmp[k]]
            /\ tmp' = [tmp EXCEPT ![k] = NoInode]
            /\ Return(c, Store!Answer("ok"))
  /\ UNCHANGED data

-----------------------------------------------------------------------------
(* Get.                                                                       *)

\* os.Open: a file that does not exist is a miss
GetOpen(c) ==
  /\ At(c, "get")
  /\ LET k == req[c].key IN
     IF dest[k] = NoInode
       THEN Return(c, Store!Answer("miss"))
       ELSE /\ fd' = [fd EXCEPT ![c] = dest[k]]
            /\ Goto(c, "ctx")
            /\ UNCHANGED <<req, got, pos, ans>>
  /\ UNCHANGED fileVars

\* ctx.Err() is nil
GetCtx(c) ==
  /\ At(c, "ctx")
  /\ Goto(c, "read")
  /\ UNCHANGED <<fileVars, req, fd, got, pos, ans>>

\* one read of io.ReadAll
GetRead(c) ==
  /\ At(c, "read")
  /\ pos[c] \in Chunks
  /\ data[fd[c]][pos[c]] # Absent
  /\ got' = [got EXCEPT ![c][pos[c]] = data[fd[c]][pos[c]]]
  /\ pos' = [pos EXCEPT ![c] = @ + 1]
  /\ UNCHANGED <<fileVars, pc, req, fd, ans>>

\* The value a Get returns: what it read, however little or mixed
ValueOf(d) == IF \E v \in Vals : d = Whole(v) THEN d[1] ELSE d

\* mutant: a single read, not ReadAll
Bug_GetEOF(c) ==
  /\ At(c, "read")
  /\ pos[c] > 1
  /\ Return(c, Store!Hit(ValueOf(got[c])))
  /\ UNCHANGED fileVars

\* end of file: io.ReadAll returns
GetEOF(c) ==
  /\ At(c, "read")
  /\ pos[c] \in Chunks => data[fd[c]][pos[c]] = Absent
  /\ Return(c, Store!Hit(ValueOf(got[c])))
  /\ UNCHANGED fileVars

-----------------------------------------------------------------------------
(* Purge.                                                                     *)

\* os.Stat: nothing to do without a file
PurgeStat(c) ==
  /\ At(c, "purge")
  /\ IF dest[req[c].key] = NoInode
       THEN Return(c, Store!Answer("ok"))
       ELSE Goto(c, "remove") /\ UNCHANGED <<req, fd, got, pos, ans>>
  /\ UNCHANGED fileVars

\* os.Remove: fails when somebody else removed the file
PurgeRemove(c) ==
  /\ At(c, "remove")
  /\ LET k == req[c].key IN
     IF dest[k] = NoInode
       THEN Return(c, Store!Answer("error")) /\ UNCHANGED dest
       ELSE /\ dest' = [dest EXCEPT ![k] = NoInode]
            /\ Return(c, Store!Answer("ok"))
  /\ UNCHANGED <<tmp, data>>

-----------------------------------------------------------------------------
\* The client's process dies: its descriptors are closed, the files stay.
Crash(c) ==
  /\ ~At(c, "idle")
  /\ Return(c, Store!Answer("none"))
  /\ UNCHANGED fileVars

Next ==
  \E c \in Clients :
    \/ \E r \in Store!Requests : Call(c, r)
    \/ SetBegin(c) \/ SetCreate(c) \/ SetWrite(c) \/ SetWriteFails(c)
    \/ SetClose(c) \/ SetRename(c)
    \/ GetOpen(c) \/ GetCtx(c) \/ GetRead(c) \/ GetEOF(c)
    \/ PurgeStat(c) \/ PurgeRemove(c)
    \/ Fails(c) \/ Crash(c)

Spec == Init /\ [][Next]_vars

-----------------------------------------------------------------------------
(* Properties.                                                                *)

Pcs == {"idle", "set", "create", "write", "close", "rename", "get", "ctx",
        "read", "purge", "remove"}

\* The types of the file system's and the clients' state.
TypeOK ==
  /\ dest \in [Keys -> Inodes \cup {NoInode}]
  /\ tmp \in [Keys -> Inodes \cup {NoInode}]
  /\ data \in [Inodes -> Contents]
  /\ pc \in [Clients -> Pcs]
  /\ req \in [Clients -> Store!Requests \cup {Store!Idle}]
  /\ fd \in [Clients -> Inodes \cup {NoInode}]
  /\ got \in [Clients -> Contents]
  /\ pos \in [Clients -> 1..3]
  /\ ans \in [Clients -> Store!Answers]

\* A tile in the cache is never torn: whatever was cancelled, failed or died in
\* the middle of a Set, a key's path names a completely written tile or nothing
\* (the temporary file and the rename in Cache.Set).
TilesWhole ==
  \A k \in Keys : dest[k] # NoInode => \E v \in Vals : data[dest[k]] = Whole(v)

\* A hit returns a tile somebody stored, also when Set or Purge of the key run
\* between the open and the reads ("Get reads a z,x,y entry from the cache and
\* returns the contents").
HitsWhole == \A c \in Clients : ans[c].res = "hit" => ans[c].val \in Vals

\* An operation that keeps its key to itself does not lose a race: a Set that got
\* as far as the rename still has its temporary file, a Purge that saw the file
\* can still remove it.
NoLostRace ==
  \A c \in Clients :
    /\ pc[c] = "rename" => tmp[req[c].key] # NoInode
    /\ pc[c] = "remove" => dest[req[c].key] # NoInode

\* The file cache is the atomic store of TileStore as long as no two clients set
\* or purge one key.
ImplementsStore == Store!Spec
=============================================================================
