--------------------------- MODULE FileCache_proofs ---------------------------
(* Theorems about FileCache, for any clients, keys, values and inodes, as long *)
(* as no two clients set or purge one key.  Nothing in the code enforces that: *)
(* with two writers of a key one truncates the temporary file that the other   *)
(* has written and is about to rename.                                         *)
EXTENDS FileCache, TLAPS

OneWriterPerKey == \A k \in Keys : \A c, d \in MayWrite[k] : c = d

FileTypes ==
  /\ dest \in [Keys -> Inodes \cup {NoInode}]
  /\ tmp \in [Keys -> Inodes \cup {NoInode}]
  /\ data \in [Inodes -> Contents]

ClientTypes ==
  /\ pc \in [Clients -> Pcs]
  /\ req \in [Clients -> Store!Requests \cup {Store!Idle}]
  /\ fd \in [Clients -> Inodes \cup {NoInode}]
  /\ got \in [Clients -> Contents]
  /\ pos \in [Clients -> 1..3]
  /\ ans \in [Clients -> Store!Answers]

\* a temporary file belongs to one key and is nobody's tile
Separate ==
  \A k, j \in Keys : tmp[k] # NoInode => tmp[k] # dest[j] /\ (tmp[k] = tmp[j] => k = j)

\* the operation a client is in
InCall(c) ==
  /\ pc[c] = "idle" => req[c] = Store!Idle
  /\ pc[c] # "idle" => req[c] \in Store!Requests
  /\ pc[c] \in {"get", "ctx", "read"} => req[c].op = "get"
  /\ pc[c] \in {"purge", "remove"} => req[c].op = "purge" /\ c \in MayWrite[req[c].key]
  /\ pc[c] \in {"set", "create", "write", "close", "rename"} =>
       req[c].op = "set" /\ c \in MayWrite[req[c].key]
  /\ pc[c] \in {"create", "write", "close", "rename"} => req[c].key \notin Beyond

\* a client that sets a key has its temporary file
Writing(c) ==
  /\ pc[c] \in {"write", "close"} => fd[c] = tmp[req[c].key]
  /\ pc[c] \in {"write", "close", "rename"} => tmp[req[c].key] \in Inodes
  /\ pc[c] = "write" => data[tmp[req[c].key]] = Empty
  /\ pc[c] \in {"close", "rename"} => data[tmp[req[c].key]] = Whole(req[c].val)
  /\ pc[c] = "remove" => dest[req[c].key] # NoInode

\* a client that reads has a file that nobody writes any more
Reading(c) ==
  /\ pc[c] \in {"ctx", "read"} =>
       /\ fd[c] \in Inodes
       /\ \E v \in Vals : data[fd[c]] = Whole(v)
       /\ \A k \in Keys : tmp[k] # fd[c]
       /\ \A p \in Chunks : got[c][p] = IF p < pos[c] THEN data[fd[c]][p] ELSE Absent
  /\ pc[c] \notin {"ctx", "read"} => got[c] = Empty /\ pos[c] = 1

ClientOK(c) == InCall(c) /\ Writing(c) /\ Reading(c)

IInv ==
  /\ FileTypes /\ ClientTypes
  /\ TilesWhole /\ Separate
  /\ \A c \in Clients : ClientOK(c)

Same(d) ==
  /\ pc'[d] = pc[d] /\ req'[d] = req[d] /\ fd'[d] = fd[d]
  /\ got'[d] = got[d] /\ pos'[d] = pos[d] /\ ans'[d] = ans[d]

-----------------------------------------------------------------------------
\* The chunks of a file, and a value written to an empty file.
LEMMA WholeFacts ==
  ASSUME NEW v \in Vals
  PROVE  /\ Whole(v) \in Contents /\ Empty \in Contents
         /\ Whole(v)[1] = v /\ Whole(v)[1] # Absent
         /\ Written(Empty, v, Size[v]) = Whole(v)
         /\ \A n \in {0, 1} : \A d \in Contents : Written(d, v, n) \in Contents
<1>1. Size[v] \in {1, 2} /\ v # Absent
  BY FileCacheAssumption
<1>2. Whole(v) \in Contents /\ Empty \in Contents
  BY DEF Whole, Empty, Contents, Chunks
<1>3. Whole(v)[1] = v
  BY <1>1 DEF Whole, Chunks
<1>4. Written(Empty, v, Size[v]) = Whole(v)
  BY <1>1 DEF Written, Whole, Empty, Chunks
<1>5. \A n \in {0, 1} : \A d \in Contents : Written(d, v, n) \in Contents
  BY DEF Written, Contents, Chunks
<1> QED
  BY <1>1, <1>2, <1>3, <1>4, <1>5

\* A request is of one kind, and none is Idle.
LEMMA RequestFacts ==
  ASSUME NEW r \in Store!Requests
  PROVE  /\ r # Store!Idle /\ r.key \in Keys
         /\ r.op \in {"get", "purge", "set"}
         /\ r.op = "set" => r.val \in Vals
  BY DEF Store!Requests, Store!Idle

LEMMA AnswerFacts ==
  /\ \A s \in {"none", "ok", "miss", "error"} : Store!Answer(s) \in Store!Answers
  /\ \A v \in Vals : Store!Hit(v) \in Store!Answers
  BY DEF Store!Answers, Store!Answer, Store!Hit

\* Return leaves a client that is in no call.
LEMMA Returned ==
  ASSUME ClientTypes, NEW c \in Clients, NEW a \in Store!Answers, Return(c, a)
  PROVE  /\ ClientTypes' /\ ClientOK(c)' /\ \A d \in Clients \ {c} : Same(d)
         /\ pc'[c] = "idle" /\ req' = [req EXCEPT ![c] = Store!Idle]
         /\ ans' = [ans EXCEPT ![c] = a]
<1>1. Empty \in Contents
  BY DEF Empty, Contents
<1>2. ClientTypes'
  BY <1>1 DEF Return, Goto, ClientTypes, Pcs
<1>3. /\ pc'[c] = "idle" /\ req'[c] = Store!Idle /\ got'[c] = Empty /\ pos'[c] = 1
  BY DEF Return, Goto, ClientTypes
<1>4. ClientOK(c)'
  BY <1>3 DEF ClientOK, InCall, Writing, Reading
<1>5. \A d \in Clients \ {c} : Same(d)
  BY DEF Return, Goto, ClientTypes, Same
<1> QED
  BY <1>2, <1>3, <1>4, <1>5 DEF Return

\* A step of another client that leaves this one's files alone.
LEMMA Others ==
  ASSUME NEW d \in Clients, ClientOK(d), Same(d),
         pc[d] \in {"write", "close", "rename"} =>
           /\ tmp'[req[d].key] = tmp[req[d].key]
           /\ data'[tmp[req[d].key]] = data[tmp[req[d].key]],
         pc[d] = "remove" => dest'[req[d].key] # NoInode,
         pc[d] \in {"ctx", "read"} =>
           data'[fd[d]] = data[fd[d]] /\ \A k \in Keys : tmp'[k] # fd[d]
  PROVE  ClientOK(d)'
<1>1. InCall(d)'
  BY DEF ClientOK, InCall, Same
<1>2. Writing(d)'
  BY DEF ClientOK, Writing, Same
<1>3. Reading(d)'
  BY DEF ClientOK, Reading, Same
<1> QED
  BY <1>1, <1>2, <1>3 DEF ClientOK

\* A step that changes no file.
LEMMA Quiet ==
  ASSUME IInv, NEW c \in Clients, UNCHANGED fileVars, ClientTypes', ClientOK(c)',
         \A d \in Clients \ {c} : Same(d)
  PROVE  IInv'
<1>1. dest' = dest /\ tmp' = tmp /\ data' = data
  BY DEF fileVars
<1>2. ASSUME NEW d \in Clients \ {c} PROVE ClientOK(d)'
  <2>1. ClientOK(d) /\ Same(d)
    BY DEF IInv
  <2>2. pc[d] = "remove" => dest'[req[d].key] # NoInode
    BY <1>1, <2>1 DEF ClientOK, Writing
  <2>3. pc[d] \in {"ctx", "read"} =>
          data'[fd[d]] = data[fd[d]] /\ \A k \in Keys : tmp'[k] # fd[d]
    BY <1>1, <2>1 DEF ClientOK, Reading
  <2> QED
    BY <1>1, <2>1, <2>2, <2>3, Others
<1>3. FileTypes' /\ TilesWhole' /\ Separate'
  BY <1>1 DEF IInv, FileTypes, TilesWhole, Separate
<1> QED
  BY <1>2, <1>3 DEF IInv

\* Init establishes the invariant.
LEMMA InitInvariant == Init => IInv
<1> SUFFICES ASSUME Init PROVE IInv
  OBVIOUS
<1>1. Empty \in Contents /\ Store!Answer("none") \in Store!Answers
  BY AnswerFacts DEF Empty, Contents
<1>2. FileTypes /\ ClientTypes
  BY <1>1 DEF Init, FileTypes, ClientTypes, Pcs
<1>3. TilesWhole /\ Separate
  BY DEF Init, TilesWhole, Separate
<1>4. ASSUME NEW c \in Clients PROVE ClientOK(c)
  BY DEF Init, ClientOK, InCall, Writing, Reading
<1> QED
  BY <1>2, <1>3, <1>4 DEF IInv

-----------------------------------------------------------------------------
(* The steps of a client, and what they are to the store.                      *)

\* the variables of TileStore, as FileCache has them
Tiles == [k \in Keys |-> IF dest[k] = NoInode THEN Absent ELSE data[dest[k]][1]]
Seen  == [c \in Clients |-> IF pc[c] \in {"ctx", "read"} THEN data[fd[c]][1] ELSE Unsampled]

\* Nothing to the store: neither its tiles nor a client's call changes.
LEMMA Stutters ==
  ASSUME Tiles' = Tiles, Seen' = Seen, req' = req, ans' = ans
  PROVE  UNCHANGED Store!vars
  BY DEF Tiles, Seen, Store!vars

\* What a client saw stays what it saw, unless it returns.
LEMMA SeenKept ==
  ASSUME IInv, NEW c \in Clients, \A d \in Clients \ {c} : Same(d),
         \A d \in Clients \ {c} : pc[d] \in {"ctx", "read"} => data'[fd[d]] = data[fd[d]],
         pc'[c] \notin {"ctx", "read"}
  PROVE  Seen' = [Seen EXCEPT ![c] = Unsampled]
<1>1. \A d \in Clients \ {c} :
        (IF pc'[d] \in {"ctx", "read"} THEN data'[fd'[d]][1] ELSE Unsampled)
          = (IF pc[d] \in {"ctx", "read"} THEN data[fd[d]][1] ELSE Unsampled)
  BY DEF Same
<1>2. \A d \in Clients :
        (IF pc'[d] \in {"ctx", "read"} THEN data'[fd'[d]][1] ELSE Unsampled)
          = IF d = c THEN Unsampled ELSE Seen[d]
  BY <1>1 DEF Seen
<1>3. Seen' = [d \in Clients |-> IF d = c THEN Unsampled ELSE Seen[d]]
  BY <1>2 DEF Seen
<1> QED
  BY <1>3 DEF Seen

\* Return, as the store has it.
LEMMA StoreReturn ==
  ASSUME IInv, NEW c \in Clients, NEW a \in Store!Answers, Return(c, a),
         \A d \in Clients \ {c} : pc[d] \in {"ctx", "read"} => data'[fd[d]] = data[fd[d]]
  PROVE  Store!Return(c, a)
<1>1. /\ req' = [req EXCEPT ![c] = Store!Idle] /\ ans' = [ans EXCEPT ![c] = a]
      /\ pc'[c] = "idle" /\ \A d \in Clients \ {c} : Same(d)
  BY Returned DEF IInv
<1>2. Seen' = [Seen EXCEPT ![c] = Unsampled]
  BY <1>1, SeenKept
<1> QED
  BY <1>1, <1>2 DEF Store!Return, Seen

\* A return that changes no file keeps the invariant, and the tiles.
LEMMA QuietReturn ==
  ASSUME IInv, NEW c \in Clients, NEW a \in Store!Answers, Return(c, a), UNCHANGED fileVars
  PROVE  IInv' /\ Store!Return(c, a) /\ Tiles' = Tiles
<1>1. IInv'
  BY Returned, Quiet DEF IInv
<1>2. Store!Return(c, a)
  BY StoreReturn DEF fileVars
<1> QED
  BY <1>1, <1>2 DEF Tiles, fileVars

\* A step inside a call that changes no file and does not open one.
LEMMA QuietGoto ==
  ASSUME IInv, NEW c \in Clients, UNCHANGED <<fileVars, req, ans>>, ClientTypes', ClientOK(c)',
         \A d \in Clients \ {c} : Same(d),
         pc[c] \in {"ctx", "read"} <=> pc'[c] \in {"ctx", "read"}, 
         pc[c] \in {"ctx", "read"} => fd'[c] = fd[c]
  PROVE  IInv' /\ UNCHANGED Store!vars
<1>1. IInv'
  BY Quiet
<1>2. Tiles' = Tiles
  BY DEF Tiles, fileVars
<1>3. Seen' = Seen
  BY DEF Seen, Same, fileVars
<1> QED
  BY <1>1, <1>2, <1>3, Stutters

LEMMA CallStep ==
  ASSUME IInv, NEW c \in Clients, NEW r \in Store!Requests, Call(c, r)
  PROVE  IInv' /\ Store!Call(c, r)
<1> ClientTypes /\ ClientOK(c)
  BY DEF IInv
<1>1. /\ pc[c] = "idle" /\ pc'[c] = r.op /\ req' = [req EXCEPT ![c] = r] /\ req'[c] = r
      /\ r.op # "get" => c \in MayWrite[r.key]
      /\ UNCHANGED <<fileVars, fd, got, pos>>
      /\ ans' = [ans EXCEPT ![c] = Store!Answer("none")]
  BY DEF Call, At, Goto, ClientTypes
<1>2. r.op \in {"get", "purge", "set"}
  BY RequestFacts
<1>3. ClientTypes'
  BY <1>1, <1>2, AnswerFacts DEF Call, Goto, ClientTypes, Pcs
<1>4. ClientOK(c)'
  BY <1>1, <1>2 DEF ClientOK, InCall, Writing, Reading
<1>5. \A d \in Clients \ {c} : Same(d)
  BY DEF Call, Goto, ClientTypes, Same
<1>6. IInv'
  BY <1>1, <1>3, <1>4, <1>5, Quiet
<1>7. Seen' = Seen
  BY <1>1, <1>2, <1>5 DEF Seen, Same, fileVars
<1>8. Tiles' = Tiles
  BY <1>1 DEF Tiles, fileVars
<1>9. req[c] = Store!Idle
  BY <1>1 DEF ClientOK, InCall
<1> QED
  BY <1>1, <1>6, <1>7, <1>8, <1>9 DEF Store!Call, Tiles, Seen

\* An error, and the death of the client, are the same in both.
LEMMA FailStep ==
  ASSUME IInv, NEW c \in Clients, Fails(c) \/ Crash(c)
  PROVE  IInv' /\ (Store!Error(c) \/ Store!Crash(c))
<1>1. pc[c] # "idle" /\ UNCHANGED fileVars
  BY DEF Fails, Crash, At
<1>2. req[c] # Store!Idle
  BY <1>1, RequestFacts DEF IInv, ClientOK, InCall
<1>3. CASE Fails(c)
  BY <1>1, <1>2, <1>3, QuietReturn, AnswerFacts DEF Fails, Store!Error, Tiles
<1>4. CASE Crash(c)
  BY <1>1, <1>2, <1>4, QuietReturn, AnswerFacts DEF Crash, Store!Crash, Tiles
<1> QED
  BY <1>3, <1>4

-----------------------------------------------------------------------------
\* Set of a key beyond max_zoom does nothing; of another one it begins.
LEMMA SetBeginStep ==
  ASSUME IInv, NEW c \in Clients, SetBegin(c)
  PROVE  IInv' /\ (Store!SetOk(c) \/ UNCHANGED Store!vars)
<1> ClientTypes /\ ClientOK(c)
  BY DEF IInv
<1>1. /\ pc[c] = "set" /\ UNCHANGED fileVars
      /\ req[c].op = "set" /\ req[c] \in Store!Requests /\ c \in MayWrite[req[c].key]
  BY DEF SetBegin, At, ClientOK, InCall
<1>2. CASE req[c].key \in Beyond /\ Return(c, Store!Answer("ok"))
  <2>1. Tiles' = Tiles /\ Store!Return(c, Store!Answer("ok")) /\ IInv'
    BY <1>1, <1>2, QuietReturn, AnswerFacts
  <2>2. Store!SetOk(c)
    BY <1>1, <1>2, <2>1 DEF Store!SetOk, Store!Stored, Tiles
  <2> QED
    BY <2>1, <2>2
<1>3. CASE /\ req[c].key \notin Beyond
           /\ Goto(c, "create") /\ UNCHANGED <<req, fd, got, pos, ans>>
  <2>1. pc'[c] = "create" /\ ClientTypes'
    BY <1>3 DEF Goto, ClientTypes, Pcs
  <2>2. ClientOK(c)'
    BY <1>1, <1>3, <2>1 DEF ClientOK, InCall, Writing, Reading
  <2>3. \A d \in Clients \ {c} : Same(d)
    BY <1>3 DEF Goto, Same, ClientTypes
  <2> QED
    BY <1>1, <1>3, <2>1, <2>2, <2>3, QuietGoto
<1> QED
  BY <1>2, <1>3 DEF SetBegin

\* inode i is nobody's tile, and only client c has it open, for key k
Private(c, k, i) ==
  /\ \A j \in Keys : dest[j] # i /\ (j # k => tmp[j] # i)
  /\ \A d \in Clients \ {c} : pc[d] \in {"ctx", "read"} => fd[d] # i
  /\ \A d \in Clients \ {c} : pc[d] \in {"write", "close", "rename"} => req[d].key # k

\* the step is client c's, which is not reading
Alone(c) ==
  /\ pc[c] \notin {"ctx", "read"} /\ pc'[c] \notin {"ctx", "read"}
  /\ ClientTypes' /\ ClientOK(c)'
  /\ \A d \in Clients \ {c} : Same(d)

\* A step that writes to inode i, which is nobody's tile and only c has open.
LEMMA WriteEffect ==
  ASSUME IInv, NEW c \in Clients, NEW k \in Keys, NEW i \in Inodes, NEW x \in Contents,
         data' = [data EXCEPT ![i] = x], tmp' = [tmp EXCEPT ![k] = i], dest' = dest,
         Private(c, k, i), Alone(c)
  PROVE  IInv' /\ Tiles' = Tiles /\ Seen' = Seen
<1> USE DEF Private, Alone
<1> FileTypes /\ ClientTypes /\ TilesWhole /\ Separate
  BY DEF IInv
<1>1. /\ \A h \in Inodes : data'[h] = IF h = i THEN x ELSE data[h]
      /\ \A j \in Keys : tmp'[j] = IF j = k THEN i ELSE tmp[j]
      /\ i # NoInode
  BY FileCacheAssumption DEF FileTypes
<1>2. FileTypes'
  BY DEF FileTypes
<1>3. \A j \in Keys : dest[j] # NoInode => dest[j] \in Inodes /\ data'[dest[j]] = data[dest[j]]
  BY <1>1 DEF FileTypes
<1>4. TilesWhole'
  BY <1>3 DEF TilesWhole
<1>5. Separate'
  BY <1>1 DEF Separate
<1>6. ASSUME NEW d \in Clients \ {c} PROVE ClientOK(d)'
  <2>1. ClientOK(d) /\ Same(d)
    BY DEF IInv
  <2>2. pc[d] \in {"write", "close", "rename"} =>
           /\ tmp'[req[d].key] = tmp[req[d].key]
           /\ data'[tmp[req[d].key]] = data[tmp[req[d].key]]
    <3> SUFFICES ASSUME pc[d] \in {"write", "close", "rename"}
                 PROVE  /\ tmp'[req[d].key] = tmp[req[d].key]
                        /\ data'[tmp[req[d].key]] = data[tmp[req[d].key]]
      OBVIOUS
    <3>1. req[d].key \in Keys /\ req[d].key # k
      BY <2>1, RequestFacts DEF ClientOK, InCall
    <3>2. tmp[req[d].key] \in Inodes /\ tmp[req[d].key] # i
      BY <2>1, <3>1 DEF ClientOK, Writing
    <3> QED
      BY <1>1, <3>1, <3>2
  <2>3. pc[d] = "remove" => dest'[req[d].key] # NoInode
    BY <2>1 DEF ClientOK, Writing
  <2>4. pc[d] \in {"ctx", "read"} =>
          data'[fd[d]] = data[fd[d]] /\ \A j \in Keys : tmp'[j] # fd[d]
    BY <1>1, <2>1 DEF ClientOK, Reading
  <2> QED
    BY <2>1, <2>2, <2>3, <2>4, Others
<1>7. Tiles' = Tiles
  BY <1>3 DEF Tiles
<1>8. \A d \in Clients \ {c} : pc[d] \in {"ctx", "read"} => data'[fd[d]] = data[fd[d]]
  BY <1>1 DEF IInv, ClientOK, Reading
<1>9. Seen' = Seen
  <2>1. \A d \in Clients :
          (IF pc'[d] \in {"ctx", "read"} THEN data'[fd'[d]][1] ELSE Unsampled)
            = (IF pc[d] \in {"ctx", "read"} THEN data[fd[d]][1] ELSE Unsampled)
    BY <1>8 DEF Same
  <2> QED
    BY <2>1 DEF Seen
<1> QED
  BY <1>2, <1>4, <1>5, <1>6, <1>7, <1>9 DEF IInv

\* What the writer of a key has to itself: no other client is about to write the
\* key or has its temporary file open.
LEMMA OnlyWriter ==
  ASSUME IInv, OneWriterPerKey, NEW c \in Clients, NEW k \in Keys, c \in MayWrite[k],
         NEW d \in Clients \ {c}
  PROVE  /\ pc[d] \in {"set", "create", "write", "close", "rename", "purge", "remove"} =>
              req[d].key # k
         /\ pc[d] \in {"ctx", "read"} => fd[d] # tmp[k]
<1>1. ClientOK(d)
  BY DEF IInv
<1> QED
  BY <1>1 DEF OneWriterPerKey, ClientOK, InCall, Reading

\* os.Create takes a new file, or the temporary file that a failed Set left.
LEMMA SetCreateStep ==
  ASSUME IInv, OneWriterPerKey, NEW c \in Clients, SetCreate(c)
  PROVE  IInv' /\ UNCHANGED Store!vars
<1> FileTypes /\ ClientTypes /\ Separate /\ ClientOK(c)
  BY DEF IInv
<1> DEFINE k == req[c].key
<1>1. /\ pc[c] = "create" /\ req[c].op = "set" /\ c \in MayWrite[k] /\ k \notin Beyond
      /\ req[c] \in Store!Requests /\ k \in Keys
  BY RequestFacts DEF SetCreate, At, ClientOK, InCall
<1>2. PICK i \in Inodes :
        /\ IF tmp[k] = NoInode THEN Free(i) ELSE i = tmp[k]
        /\ tmp' = [tmp EXCEPT ![k] = i]
        /\ data' = [data EXCEPT ![i] = Empty]
        /\ fd' = [fd EXCEPT ![c] = i]
  BY DEF SetCreate
<1>3. /\ pc'[c] = "write" /\ fd'[c] = i /\ tmp'[k] = i /\ data'[i] = Empty
      /\ UNCHANGED <<dest, req, got, pos, ans>>
  BY <1>1, <1>2 DEF SetCreate, Goto, ClientTypes, FileTypes
<1>4. ClientTypes' /\ \A d \in Clients \ {c} : Same(d)
  BY <1>2, <1>3 DEF SetCreate, Goto, ClientTypes, Pcs, Same
<1>5. ClientOK(c)'
  BY <1>1, <1>3 DEF ClientOK, InCall, Writing, Reading
<1>6. \A j \in Keys : dest[j] # i /\ (j # k => tmp[j] # i)
  BY <1>1, <1>2 DEF Free, Separate
<1>7. \A d \in Clients \ {c} : pc[d] \in {"ctx", "read"} => fd[d] # i
  BY <1>1, <1>2, OnlyWriter DEF Free
<1>8. \A d \in Clients \ {c} : pc[d] \in {"write", "close", "rename"} => req[d].key # k
  BY <1>1, OnlyWriter
<1>9. Empty \in Contents
  BY DEF Empty, Contents
<1>10. IInv' /\ Tiles' = Tiles /\ Seen' = Seen
  <2>1. Private(c, k, i)
    BY <1>6, <1>7, <1>8 DEF Private
  <2>2. Alone(c)
    BY <1>1, <1>3, <1>4, <1>5 DEF Alone
  <2> QED
    BY <1>1, <1>2, <1>3, <1>9, <2>1, <2>2, WriteEffect
<1> QED
  BY <1>3, <1>10, Stutters

\* f.Write, whole or in part, to the temporary file.
LEMMA SetWriteStep ==
  ASSUME IInv, OneWriterPerKey, NEW c \in Clients, SetWrite(c) \/ SetWriteFails(c)
  PROVE  IInv' /\ (Store!Error(c) \/ UNCHANGED Store!vars)
<1> FileTypes /\ ClientTypes /\ Separate /\ ClientOK(c)
  BY DEF IInv
<1> DEFINE k == req[c].key
           v == req[c].val
           i == tmp[k]
<1>1. /\ pc[c] = "write" /\ req[c].op = "set" /\ c \in MayWrite[k] /\ k \notin Beyond
      /\ req[c] \in Store!Requests /\ k \in Keys /\ v \in Vals
      /\ fd[c] = i /\ i \in Inodes /\ data[i] = Empty
  BY RequestFacts DEF SetWrite, SetWriteFails, At, ClientOK, InCall, Writing
<1>2. i # NoInode /\ tmp = [tmp EXCEPT ![k] = i]
  BY <1>1, FileCacheAssumption DEF FileTypes
<1>3. \A j \in Keys : dest[j] # i /\ (j # k => tmp[j] # i)
  BY <1>1, <1>2 DEF Separate
<1>4. \A d \in Clients \ {c} : pc[d] \in {"ctx", "read"} => fd[d] # i
  BY <1>1, OnlyWriter
<1>5. \A d \in Clients \ {c} : pc[d] \in {"write", "close", "rename"} => req[d].key # k
  BY <1>1, OnlyWriter
<1> HIDE DEF k, i
<1>6. CASE SetWrite(c)
  <2>1. data' = [data EXCEPT ![i] = Whole(v)] /\ Whole(v) \in Contents
    BY <1>1, <1>6, WholeFacts DEF SetWrite
  <2>2. pc'[c] = "close" /\ UNCHANGED <<dest, tmp, req, fd, got, pos, ans>>
    BY <1>6 DEF SetWrite, Goto, ClientTypes
  <2>3. ClientTypes' /\ \A d \in Clients \ {c} : Same(d)
    BY <1>6 DEF SetWrite, Goto, ClientTypes, Pcs, Same
  <2>4. data'[i] = Whole(v)
    BY <1>1, <2>1 DEF FileTypes
  <2>5. ClientOK(c)'
    BY <1>1, <2>2, <2>4 DEF ClientOK, InCall, Writing, Reading, k, i
  <2>6. /\ k \in Keys /\ i \in Inodes /\ tmp' = [tmp EXCEPT ![k] = i] /\ dest' = dest
        /\ pc[c] \notin {"ctx", "read"} /\ pc'[c] \notin {"ctx", "read"}
    BY <1>1, <1>2, <2>2
  <2>7. IInv' /\ Tiles' = Tiles /\ Seen' = Seen
    <3>1. Private(c, k, i)
      BY <1>3, <1>4, <1>5 DEF Private
    <3>2. Alone(c)
      BY <2>3, <2>5, <2>6 DEF Alone
    <3> QED
      BY <2>1, <2>6, <3>1, <3>2, WriteEffect
  <2> QED
    BY <2>2, <2>7, Stutters
<1>7. CASE SetWriteFails(c)
  <2>1. Size[v] \in {1, 2}
    BY <1>1, FileCacheAssumption
  <2>2. PICK n \in {0, 1} : data' = [data EXCEPT ![i] = Written(Empty, v, n)]
    <3>1. PICK n \in 0..(Size[v] - 1) : data' = [data EXCEPT ![fd[c]] = Written(@, v, n)]
      BY <1>7 DEF SetWriteFails
    <3>2. n \in {0, 1}
      BY <2>1, <3>1
    <3>3. data' = [data EXCEPT ![i] = Written(Empty, v, n)]
      BY <1>1, <3>1
    <3> QED
      BY <3>2, <3>3
  <2>3. Written(Empty, v, n) \in Contents
    BY <1>1, WholeFacts DEF Empty, Contents
  <2>4. Return(c, Store!Answer("error")) /\ UNCHANGED <<dest, tmp>>
    BY <1>7 DEF SetWriteFails
  <2>5. /\ ClientTypes' /\ ClientOK(c)' /\ \A d \in Clients \ {c} : Same(d)
        /\ pc'[c] = "idle"
    BY <2>4, Returned, AnswerFacts
  <2>6. IInv' /\ Tiles' = Tiles
    <3>1. tmp' = [tmp EXCEPT ![k] = i] /\ dest' = dest
      BY <1>2, <2>4
    <3>2. Private(c, k, i)
      BY <1>3, <1>4, <1>5 DEF Private
    <3>3. Alone(c)
      BY <1>1, <2>5 DEF Alone
    <3>4. k \in Keys /\ i \in Inodes
      BY <1>1
    <3> QED
      BY <2>2, <2>3, <3>1, <3>2, <3>3, <3>4, WriteEffect
  <2>7. \A d \in Clients \ {c} : pc[d] \in {"ctx", "read"} => data'[fd[d]] = data[fd[d]]
    BY <1>4, <2>2 DEF FileTypes, IInv, ClientOK, Reading
  <2>8. Store!Return(c, Store!Answer("error"))
    BY <2>4, <2>7, StoreReturn, AnswerFacts
  <2>9. req[c] # Store!Idle
    BY <1>1, RequestFacts
  <2> QED
    BY <2>6, <2>8, <2>9 DEF Store!Error, Tiles
<1> QED
  BY <1>6, <1>7

\* f.Close
LEMMA SetCloseStep ==
  ASSUME IInv, NEW c \in Clients, SetClose(c)
  PROVE  IInv' /\ UNCHANGED Store!vars
<1> ClientTypes /\ ClientOK(c)
  BY DEF IInv
<1>1. /\ pc[c] = "close" /\ pc'[c] = "rename"
      /\ UNCHANGED <<fileVars, req, got, pos, ans>>
  BY DEF SetClose, At, Goto, ClientTypes
<1>2. ClientTypes' /\ \A d \in Clients \ {c} : Same(d)
  BY DEF SetClose, Goto, ClientTypes, Pcs, Same
<1>3. ClientOK(c)'
  BY <1>1 DEF ClientOK, InCall, Writing, Reading, fileVars
<1> QED
  BY <1>1, <1>2, <1>3, QuietGoto

\* os.Rename makes the temporary file the tile: the instant the Set takes effect.
LEMMA SetRenameStep ==
  ASSUME IInv, OneWriterPerKey, NEW c \in Clients, SetRename(c)
  PROVE  IInv' /\ Store!SetOk(c)
<1> FileTypes /\ ClientTypes /\ TilesWhole /\ Separate /\ ClientOK(c)
  BY DEF IInv
<1> DEFINE k == req[c].key
           v == req[c].val
           i == tmp[k]
<1>1. /\ pc[c] = "rename" /\ req[c].op = "set" /\ c \in MayWrite[k] /\ k \notin Beyond
      /\ req[c] \in Store!Requests /\ k \in Keys /\ v \in Vals
      /\ i \in Inodes /\ i # NoInode /\ data[i] = Whole(v)
  BY RequestFacts, FileCacheAssumption DEF SetRename, At, ClientOK, InCall, Writing
<1>2. /\ dest' = [dest EXCEPT ![k] = i] /\ tmp' = [tmp EXCEPT ![k] = NoInode]
      /\ data' = data /\ Return(c, Store!Answer("ok"))
  BY <1>1 DEF SetRename
<1>3. /\ ClientTypes' /\ ClientOK(c)' /\ \A d \in Clients \ {c} : Same(d)
  BY <1>2, Returned, AnswerFacts
<1>4. Store!Return(c, Store!Answer("ok"))
  BY <1>2, StoreReturn, AnswerFacts
<1>5. /\ \A j \in Keys : dest'[j] = IF j = k THEN i ELSE dest[j]
      /\ \A j \in Keys : tmp'[j] = IF j = k THEN NoInode ELSE tmp[j]
  BY <1>1, <1>2 DEF FileTypes
<1>6. FileTypes'
  BY <1>1, <1>2 DEF FileTypes
<1>7. ASSUME NEW j \in Keys, dest'[j] # NoInode
      PROVE  \E w \in Vals : data'[dest'[j]] = Whole(w)
  <2>1. CASE j = k
    BY <1>1, <1>2, <1>5, <2>1
  <2>2. CASE j # k
    BY <1>2, <1>5, <1>7, <2>2 DEF TilesWhole
  <2> QED
    BY <2>1, <2>2
<1>8. TilesWhole' /\ Separate'
  BY <1>1, <1>5, <1>7 DEF TilesWhole, Separate
<1>9. ASSUME NEW d \in Clients \ {c} PROVE ClientOK(d)'
  <2>1. ClientOK(d) /\ Same(d)
    BY <1>3 DEF IInv
  <2>2. pc[d] \in {"write", "close", "rename"} => req[d].key # k /\ req[d].key \in Keys
    BY <1>1, <2>1, OnlyWriter, RequestFacts DEF ClientOK, InCall
  <2>3. pc[d] = "remove" => dest[req[d].key] # NoInode /\ req[d].key \in Keys
    BY <2>1, RequestFacts DEF ClientOK, InCall, Writing
  <2>4. pc[d] \in {"ctx", "read"} => fd[d] \in Inodes /\ \A j \in Keys : tmp[j] # fd[d]
    BY <2>1 DEF ClientOK, Reading
  <2>5. pc[d] \in {"write", "close", "rename"} =>
           /\ tmp'[req[d].key] = tmp[req[d].key]
           /\ data'[tmp[req[d].key]] = data[tmp[req[d].key]]
    BY <1>2, <1>5, <2>2
  <2>6. pc[d] = "remove" => dest'[req[d].key] # NoInode
    BY <1>1, <1>5, <2>3
  <2>7. pc[d] \in {"ctx", "read"} =>
          data'[fd[d]] = data[fd[d]] /\ \A j \in Keys : tmp'[j] # fd[d]
    BY <1>2, <1>5, <2>4, FileCacheAssumption
  <2> QED
    BY <2>1, <2>5, <2>6, <2>7, Others
<1>10. IInv'
  BY <1>3, <1>6, <1>7, <1>8, <1>9 DEF IInv
<1>11. Tiles' = [Tiles EXCEPT ![k] = v]
  <2>1. \A j \in Keys : (IF dest'[j] = NoInode THEN Absent ELSE data'[dest'[j]][1])
                          = IF j = k THEN v ELSE Tiles[j]
    <3>1. data[i][1] = v
      BY <1>1, WholeFacts
    <3> QED
      BY <1>1, <1>2, <1>5, <3>1 DEF Tiles
  <2>2. Tiles' = [j \in Keys |-> IF j = k THEN v ELSE Tiles[j]]
    BY <2>1 DEF Tiles
  <2> QED
    BY <2>2 DEF Tiles
<1> QED
  BY <1>1, <1>4, <1>10, <1>11 DEF Store!SetOk, Store!Stored, Tiles

\* os.Open: what a Get will return is settled here, or it is a miss.
LEMMA GetOpenStep ==
  ASSUME IInv, NEW c \in Clients, GetOpen(c)
  PROVE  IInv' /\ (Store!GetMiss(c) \/ Store!GetSample(c))
<1> FileTypes /\ ClientTypes /\ TilesWhole /\ Separate /\ ClientOK(c)
  BY DEF IInv
<1> DEFINE k == req[c].key
<1>1. /\ pc[c] = "get" /\ req[c].op = "get" /\ req[c] \in Store!Requests /\ k \in Keys
      /\ UNCHANGED fileVars /\ got[c] = Empty /\ pos[c] = 1
  BY RequestFacts DEF GetOpen, At, ClientOK, InCall, Reading
<1>2. CASE dest[k] = NoInode /\ Return(c, Store!Answer("miss"))
  <2>1. Tiles' = Tiles /\ Store!Return(c, Store!Answer("miss")) /\ IInv'
    BY <1>1, <1>2, QuietReturn, AnswerFacts
  <2>2. Tiles[k] = Absent
    BY <1>1, <1>2 DEF Tiles
  <2> QED
    BY <1>1, <2>1, <2>2 DEF Store!GetMiss, Tiles
<1>3. CASE /\ dest[k] # NoInode
           /\ fd' = [fd EXCEPT ![c] = dest[k]] /\ Goto(c, "ctx") /\ UNCHANGED <<req, got, pos, ans>>
  <2>1. dest[k] \in Inodes /\ \A j \in Keys : tmp[j] # dest[k]
    BY <1>1, <1>3, FileCacheAssumption DEF FileTypes, Separate
  <2>2. PICK v \in Vals : data[dest[k]] = Whole(v)
    BY <1>1, <1>3 DEF TilesWhole
  <2>3. pc'[c] = "ctx" /\ fd'[c] = dest[k]
    BY <1>3 DEF Goto, ClientTypes
  <2>4. ClientTypes' /\ \A d \in Clients \ {c} : Same(d)
    BY <1>3, <2>1 DEF Goto, ClientTypes, Pcs, Same
  <2>5. \A p \in Chunks : got[c][p] = IF p < pos[c] THEN data[fd'[c]][p] ELSE Absent
    BY <1>1 DEF Empty, Chunks
  <2>6. ClientOK(c)'
    BY <1>1, <1>3, <2>1, <2>2, <2>3, <2>5 DEF ClientOK, InCall, Writing, Reading, fileVars
  <2>7. IInv'
    BY <1>1, <2>4, <2>6, Quiet
  <2>8. Tiles' = Tiles
    BY <1>1 DEF Tiles, fileVars
  <2>9. Tiles[k] # Absent /\ Tiles[k] = data[dest[k]][1]
    BY <1>1, <1>3, <2>2, WholeFacts DEF Tiles
  <2>10. Seen[c] = Unsampled
    BY <1>1 DEF Seen
  <2>11. Seen' = [Seen EXCEPT ![c] = Tiles[k]]
    <3>1. ASSUME NEW d \in Clients
          PROVE  (IF pc'[d] \in {"ctx", "read"} THEN data'[fd'[d]][1] ELSE Unsampled)
                   = IF d = c THEN Tiles[k] ELSE Seen[d]
      <4>1. CASE d = c
        BY <1>1, <2>3, <2>9, <4>1 DEF fileVars
      <4>2. CASE d # c
        BY <1>1, <2>4, <4>2 DEF Same, Seen, fileVars
      <4> QED
        BY <4>1, <4>2
    <3>2. Seen' = [d \in Clients |-> IF d = c THEN Tiles[k] ELSE Seen[d]]
      BY <3>1 DEF Seen
    <3> QED
      BY <3>2 DEF Seen
  <2> QED
    BY <1>1, <1>3, <2>7, <2>8, <2>9, <2>10, <2>11 DEF Store!GetSample, Tiles, Seen
<1> QED
  BY <1>2, <1>3 DEF GetOpen

\* ctx.Err() and one read of io.ReadAll.
LEMMA GetReadStep ==
  ASSUME IInv, NEW c \in Clients, GetCtx(c) \/ GetRead(c)
  PROVE  IInv' /\ UNCHANGED Store!vars
<1> ClientTypes /\ FileTypes /\ ClientOK(c)
  BY DEF IInv
<1>1. CASE GetCtx(c)
  <2>1. /\ pc[c] = "ctx" /\ pc'[c] = "read" /\ UNCHANGED <<fileVars, req, fd, got, pos, ans>>
    BY <1>1 DEF GetCtx, At, Goto, ClientTypes
  <2>2. ClientTypes' /\ \A d \in Clients \ {c} : Same(d)
    BY <1>1 DEF GetCtx, Goto, ClientTypes, Pcs, Same
  <2>3. ClientOK(c)'
    BY <2>1 DEF ClientOK, InCall, Writing, Reading, fileVars
  <2> QED
    BY <2>1, <2>2, <2>3, QuietGoto
<1>2. CASE GetRead(c)
  <2> DEFINE x == data[fd[c]][pos[c]]
  <2>1. /\ pc[c] = "read" /\ pos[c] \in Chunks /\ fd[c] \in Inodes /\ x \in Vals \cup {Absent}
        /\ UNCHANGED <<fileVars, pc, req, fd, ans>>
    BY <1>2 DEF GetRead, At, ClientOK, Reading, FileTypes, Contents
  <2>2. /\ got' = [got EXCEPT ![c] = [got[c] EXCEPT ![pos[c]] = x]]
        /\ pos' = [pos EXCEPT ![c] = pos[c] + 1]
    BY <1>2 DEF GetRead
  <2>3. [got[c] EXCEPT ![pos[c]] = x] \in Contents
    BY <2>1 DEF ClientTypes, Contents
  <2>4. pos[c] + 1 \in 1..3
    BY <2>1 DEF Chunks
  <2>5. ClientTypes'
    BY <2>1, <2>2, <2>3, <2>4 DEF ClientTypes
  <2>6. \A d \in Clients \ {c} : Same(d)
    BY <2>1, <2>2 DEF Same, ClientTypes
  <2>7. /\ \A p \in Chunks : got'[c][p] = IF p = pos[c] THEN x ELSE got[c][p]
        /\ pos'[c] = pos[c] + 1
    BY <2>1, <2>2 DEF ClientTypes, Contents
  <2>8. \A p \in Chunks : got'[c][p] = IF p < pos'[c] THEN data[fd[c]][p] ELSE Absent
    BY <2>1, <2>7 DEF ClientOK, Reading, Chunks
  <2>9. ClientOK(c)'
    BY <2>1, <2>8 DEF ClientOK, InCall, Writing, Reading, fileVars
  <2> QED
    BY <2>1, <2>5, <2>6, <2>9, QuietGoto
<1> QED
  BY <1>1, <1>2

\* End of file: what was read is the tile that was seen.
LEMMA GetEOFStep ==
  ASSUME IInv, NEW c \in Clients, GetEOF(c)
  PROVE  IInv' /\ Store!GetHit(c)
<1> FileTypes /\ ClientTypes /\ ClientOK(c)
  BY DEF IInv
<1>1. /\ pc[c] = "read" /\ req[c].op = "get" /\ fd[c] \in Inodes /\ pos[c] \in 1..3
      /\ got[c] \in Contents /\ UNCHANGED fileVars
      /\ pos[c] \in Chunks => data[fd[c]][pos[c]] = Absent
      /\ \A p \in Chunks : got[c][p] = IF p < pos[c] THEN data[fd[c]][p] ELSE Absent
  BY DEF GetEOF, At, ClientOK, InCall, Reading, ClientTypes
<1>2. PICK v \in Vals : data[fd[c]] = Whole(v)
  BY <1>1 DEF ClientOK, Reading
<1>3. Size[v] \in {1, 2} /\ v # Absent /\ v # Unsampled
  BY FileCacheAssumption
<1>4. \A p \in Chunks : Whole(v)[p] = IF p <= Size[v] THEN v ELSE Absent
  BY DEF Whole
<1>5. pos[c] \in 2..3 /\ (pos[c] = 2 => Size[v] = 1)
  BY <1>1, <1>2, <1>3, <1>4 DEF Chunks
<1>6. \A p \in Chunks : got[c][p] = Whole(v)[p]
  BY <1>1, <1>2, <1>3, <1>4, <1>5 DEF Chunks
<1>7. got[c] = Whole(v)
  BY <1>1, <1>6, WholeFacts DEF Contents
<1>8. ValueOf(got[c]) = v
  BY <1>7, WholeFacts DEF ValueOf
<1>9. Return(c, Store!Hit(v))
  BY <1>8 DEF GetEOF
<1>10. IInv' /\ Tiles' = Tiles /\ Store!Return(c, Store!Hit(v))
  BY <1>1, <1>9, QuietReturn, AnswerFacts
<1>11. Seen[c] = v
  BY <1>1, <1>2, WholeFacts DEF Seen
<1>12. req[c].op = "get" /\ Seen[c] # Unsampled /\ Store!Hit(v) = Store!Hit(Seen[c])
  BY <1>1, <1>3, <1>11 DEF Store!Hit
<1>13. Store!Return(c, Store!Hit(Seen[c]))
  BY <1>10, <1>12 DEF Store!Return
<1> QED
  BY <1>10, <1>12, <1>13 DEF Store!GetHit, Tiles, Seen

\* os.Stat and os.Remove.
LEMMA PurgeStatStep ==
  ASSUME IInv, NEW c \in Clients, PurgeStat(c)
  PROVE  IInv' /\ (Store!PurgeOk(c) \/ UNCHANGED Store!vars)
<1> ClientTypes /\ ClientOK(c)
  BY DEF IInv
<1> DEFINE k == req[c].key
<1>1. /\ pc[c] = "purge" /\ UNCHANGED fileVars /\ k \in Keys
      /\ req[c].op = "purge" /\ req[c] \in Store!Requests /\ c \in MayWrite[k]
  BY RequestFacts DEF PurgeStat, At, ClientOK, InCall
<1>2. CASE dest[k] = NoInode /\ Return(c, Store!Answer("ok"))
  <2>1. Tiles' = Tiles /\ Store!Return(c, Store!Answer("ok")) /\ IInv'
    BY <1>1, <1>2, QuietReturn, AnswerFacts
  <2>2. Tiles[k] = Absent
    BY <1>1, <1>2 DEF Tiles
  <2>3. Tiles' = [Tiles EXCEPT ![k] = Absent]
    BY <2>1, <2>2 DEF Tiles
  <2> QED
    BY <1>1, <2>1, <2>3 DEF Store!PurgeOk, Store!Removed, Tiles
<1>3. CASE dest[k] # NoInode /\ Goto(c, "remove") /\ UNCHANGED <<req, fd, got, pos, ans>>
  <2>1. pc'[c] = "remove" /\ ClientTypes'
    BY <1>3 DEF Goto, ClientTypes, Pcs
  <2>2. ClientOK(c)'
    BY <1>1, <1>3, <2>1 DEF ClientOK, InCall, Writing, Reading, fileVars
  <2>3. \A d \in Clients \ {c} : Same(d)
    BY <1>3 DEF Goto, Same, ClientTypes
  <2> QED
    BY <1>1, <1>3, <2>1, <2>2, <2>3, QuietGoto
<1> QED
  BY <1>2, <1>3 DEF PurgeStat

LEMMA PurgeRemoveStep ==
  ASSUME IInv, OneWriterPerKey, NEW c \in Clients, PurgeRemove(c)
  PROVE  IInv' /\ Store!PurgeOk(c)
<1> FileTypes /\ ClientTypes /\ TilesWhole /\ Separate /\ ClientOK(c)
  BY DEF IInv
<1> DEFINE k == req[c].key
<1>1. /\ pc[c] = "remove" /\ dest[k] # NoInode /\ k \in Keys
      /\ req[c].op = "purge" /\ req[c] \in Store!Requests /\ c \in MayWrite[k]
  BY RequestFacts DEF PurgeRemove, At, ClientOK, InCall, Writing
<1>2. /\ dest' = [dest EXCEPT ![k] = NoInode] /\ UNCHANGED <<tmp, data>>
      /\ Return(c, Store!Answer("ok"))
  BY <1>1 DEF PurgeRemove
<1>3. /\ ClientTypes' /\ ClientOK(c)' /\ \A d \in Clients \ {c} : Same(d)
  BY <1>2, Returned, AnswerFacts
<1>4. Store!Return(c, Store!Answer("ok"))
  BY <1>2, StoreReturn, AnswerFacts
<1>5. \A j \in Keys : dest'[j] = IF j = k THEN NoInode ELSE dest[j]
  BY <1>1, <1>2 DEF FileTypes
<1>6. FileTypes'
  BY <1>2 DEF FileTypes
<1>7. TilesWhole'
  BY <1>2, <1>5 DEF TilesWhole
<1>8. Separate'
  BY <1>2, <1>5 DEF Separate
<1>9. ASSUME NEW d \in Clients \ {c} PROVE ClientOK(d)'
  <2>1. ClientOK(d) /\ Same(d)
    BY <1>3 DEF IInv
  <2>2. pc[d] = "remove" => req[d].key # k /\ req[d].key \in Keys /\ dest[req[d].key] # NoInode
    BY <1>1, <2>1, OnlyWriter, RequestFacts DEF ClientOK, InCall, Writing
  <2>3. pc[d] = "remove" => dest'[req[d].key] # NoInode
    BY <1>5, <2>2
  <2>4. pc[d] \in {"ctx", "read"} =>
          data'[fd[d]] = data[fd[d]] /\ \A j \in Keys : tmp'[j] # fd[d]
    BY <1>2, <2>1 DEF ClientOK, Reading
  <2> QED
    BY <1>2, <2>1, <2>3, <2>4, Others
<1>10. IInv'
  BY <1>3, <1>6, <1>7, <1>8, <1>9 DEF IInv
<1>11. Tiles' = [Tiles EXCEPT ![k] = Absent]
  <2>1. \A j \in Keys : (IF dest'[j] = NoInode THEN Absent ELSE data'[dest'[j]][1])
                          = IF j = k THEN Absent ELSE Tiles[j]
    BY <1>1, <1>2, <1>5 DEF Tiles
  <2>2. Tiles' = [j \in Keys |-> IF j = k THEN Absent ELSE Tiles[j]]
    BY <2>1 DEF Tiles
  <2> QED
    BY <2>2 DEF Tiles
<1> QED
  BY <1>1, <1>4, <1>10, <1>11 DEF Store!PurgeOk, Store!Removed, Tiles

\* Every step keeps the invariant and is one of the store, or none.
LEMMA Step ==
  ASSUME IInv, OneWriterPerKey, [Next]_vars
  PROVE  IInv' /\ [Store!Next]_(Store!vars)
<1>1. CASE UNCHANGED vars
  <2>1. IInv'
    <3>1. UNCHANGED <<dest, tmp, data, pc, req, fd, got, pos, ans>>
      BY <1>1 DEF vars, fileVars, clientVars
    <3>2. FileTypes' /\ ClientTypes'
      BY <3>1 DEF IInv, FileTypes, ClientTypes
    <3>3. TilesWhole' /\ Separate'
      BY <3>1 DEF IInv, TilesWhole, Separate
    <3>4. \A c \in Clients : InCall(c)' /\ Writing(c)'
      BY <3>1 DEF IInv, ClientOK, InCall, Writing
    <3>5. \A c \in Clients : Reading(c)'
      BY <3>1 DEF IInv, ClientOK, Reading
    <3> QED
      BY <3>2, <3>3, <3>4, <3>5 DEF IInv, ClientOK
  <2>2. Tiles' = Tiles /\ Seen' = Seen /\ req' = req /\ ans' = ans
    BY <1>1 DEF vars, fileVars, clientVars, Tiles, Seen
  <2> QED
    BY <2>1, <2>2, Stutters
<1>2. ASSUME NEW c \in Clients, NEW r \in Store!Requests, Call(c, r)
      PROVE  IInv' /\ Store!Next
  BY <1>2, CallStep DEF Store!Next
<1>3. ASSUME NEW c \in Clients,
             \/ SetBegin(c) \/ SetCreate(c) \/ SetWrite(c) \/ SetWriteFails(c)
             \/ SetClose(c) \/ SetRename(c)
      PROVE  IInv' /\ (Store!Next \/ UNCHANGED Store!vars)
  BY <1>3, SetBeginStep, SetCreateStep, SetWriteStep, SetCloseStep, SetRenameStep DEF Store!Next
<1>4. ASSUME NEW c \in Clients,
             \/ GetOpen(c) \/ GetCtx(c) \/ GetRead(c) \/ GetEOF(c)
             \/ PurgeStat(c) \/ PurgeRemove(c) \/ Fails(c) \/ Crash(c)
      PROVE  IInv' /\ (Store!Next \/ UNCHANGED Store!vars)
  BY <1>4, GetOpenStep, GetReadStep, GetEOFStep, PurgeStatStep, PurgeRemoveStep, FailStep
     DEF Store!Next
<1> QED
  BY <1>1, <1>2, <1>3, <1>4 DEF Next

LEMMA Invariant == ASSUME OneWriterPerKey PROVE Spec => []IInv
<1>1. IInv /\ [Next]_vars => IInv'
  BY Step
<1> QED
  BY <1>1, InitInvariant, PTL DEF Spec

-----------------------------------------------------------------------------
\* The types of the file system's and the clients' state.
THEOREM TypesHold == ASSUME OneWriterPerKey PROVE Spec => []TypeOK
<1>1. IInv => TypeOK
  BY DEF IInv, FileTypes, ClientTypes, TypeOK
<1> QED
  BY <1>1, Invariant, PTL

\* Whatever Set is cancelled, fails or dies in, a key's path names a whole tile.
THEOREM TilesWholeHolds == ASSUME OneWriterPerKey PROVE Spec => []TilesWhole
  BY Invariant, PTL DEF IInv

\* Get returns a tile that somebody stored, whatever runs between its open and
\* its reads.
THEOREM HitsWholeHolds == ASSUME OneWriterPerKey PROVE Spec => []HitsWhole
<1>1. IInv => HitsWhole
  BY DEF IInv, ClientTypes, HitsWhole, Store!Answers
<1> QED
  BY <1>1, Invariant, PTL

\* The rename of a Set and the remove of a Purge find their file.
THEOREM NoLostRaceHolds == ASSUME OneWriterPerKey PROVE Spec => []NoLostRace
<1>1. IInv => NoLostRace
  BY FileCacheAssumption DEF IInv, ClientOK, Writing, NoLostRace
<1> QED
  BY <1>1, Invariant, PTL

\* The system calls of the file cache implement the atomic store of TileStore: a
\* Set takes effect at its rename, a Get at its open, a Purge at its remove.
THEOREM StoreImplemented == ASSUME OneWriterPerKey PROVE Spec => ImplementsStore
<1>1. Init => Store!Init
  BY DEF Init, Store!Init
<1>2. IInv /\ [Next]_vars => [Store!Next]_(Store!vars)
  BY Step
<1> QED
  BY <1>1, <1>2, Invariant, PTL DEF Spec, ImplementsStore, Store!Spec
=============================================================================
