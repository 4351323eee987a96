---------------------------- MODULE SessionFile ----------------------------
(***************************************************************************)
(* The file of a session, byte for byte where its layout decides what is   *)
(* read back: Pipeline::save_session and load_session, Message::save and   *)
(* Message::load.  A disk may be full at any byte of the file.             *)
(*                                                                         *)
(* Data: integers are small, so an integer of w bytes has its value in the *)
(* first one (-1 is w bytes of 255).                                       *)
(***************************************************************************)
EXTENDS Messages, SequencesExt

CONSTANTS
    Magic,      \* the bytes that open a session file
    ModelType,  \* the bytes that name the type of the model, and its cache size
    Caches,     \* what the model may have computed: its n_past and one byte a layer
    Histories,  \* the histories of a chat
    NoFile      \* no file has been written

VARIABLES
    cache,      \* the model's n_past and KV cache
    file,       \* the bytes on disk, or NoFile
    result,     \* what the last call has returned, "none" before it
    intended    \* [history, cache] that the file was written for

vars == <<messagesVars, cache, file, result, intended>>

RoleCode == [Auto |-> 0, User |-> 2, Assistant |-> 3, Tool |-> 4]

Huge == 65536   \* bound: bytes of a file

-----------------------------------------------------------------------------
(* Writing. *)

Bytes(v, w) == [i \in 1 .. w |-> IF v < 0 THEN 255 ELSE IF i = 1 THEN v ELSE 0]

\* fwrite(&round, sizeof(len), ...): eight bytes from where round is, which
\* takes in tok_pos.
SavedPiece(p) == Bytes(p.type, 4) \o Bytes(Len(p.data), 8) \o p.data

SavedRound(m) == Bytes(m.round, 4)  \* mutant: the size of what is written

SavedMessage(m) ==
    Bytes(m.round, 4) \o Bytes(m.tok_pos, 4)
        \o Bytes(RoleCode[m.role], 4) \o Bytes(Len(m.content), 8)
        \o FlattenSeq([i \in DOMAIN m.content |-> SavedPiece(m.content[i])])

Header(h) == Magic \o Bytes(Len(h), 8)

SavedSession(h, c) ==
    Header(h) \o FlattenSeq([i \in DOMAIN h |-> SavedMessage(h[i])]) \o ModelType \o c

\* Bytes and lengths are numbers, the cache of a model has one length.  A chat's
\* first message has a piece: only a multimedia message that nothing was appended to
\* (chatllm_multimedia_msg_prepare) has none.
ASSUME SessionAssumption ==
    /\ \A p \in Piece : p.type \in Nat /\ p.data \in Seq(Nat)
    /\ Magic \in Seq(Nat) /\ ModelType \in Seq(Nat) /\ ModelType # <<>>
    /\ \A c, d \in Caches : c \in Seq(Nat) /\ Len(c) = Len(d)
    /\ \A h \in Histories : h \in Seq(Message) /\ (h # <<>> => h[1].content # <<>>)
    /\ \A h \in Histories, c \in Caches : Len(SavedSession(h, c)) <= Huge

-----------------------------------------------------------------------------
(* Reading: f is the file, p the position in it.  A read that is cut short   *)
(* leaves the position at the end.                                           *)

Value(f, p, w) == IF \E i \in 3 .. w : f[p + i] # 0 THEN Huge ELSE f[p + 1] + 256 * f[p + 2]

\* The next piece of a message, r being what has been read.  A length that is not
\* in the file asks for a string of that size before the read falls short.
ReadPiece(f, r) ==
    LET size == Value(f, r.pos + 4, 8)
        end  == r.pos + 12 + size
    IN  IF r.pos + 12 > Len(f) THEN [r EXCEPT !.pos = Len(f)]
        ELSE IF end > Len(f) THEN [r EXCEPT !.pos = Len(f), !.huge = @ \/ size >= Huge]
        ELSE [r EXCEPT !.pos = end,
                       !.pieces = Append(@, [type |-> Value(f, r.pos, 4),
                                             data |-> SubSeq(f, r.pos + 13, end)])]

\* n pieces; after as many as there are bytes the file has been read.
LoadPieces(f, p, n) ==
    LET times == IF n < Len(f) THEN n ELSE Len(f)
        read[i \in 0 .. times] ==
            IF i = 0 THEN [pos |-> p, pieces |-> <<>>, huge |-> FALSE]
            ELSE ReadPiece(f, read[i - 1])
    IN  read[times]

RoleOfCode(n) == IF \E r \in DOMAIN RoleCode : RoleCode[r] = n
                 THEN CHOOSE r \in DOMAIN RoleCode : RoleCode[r] = n ELSE "none"

EmptyText == [type |-> 0, data |-> <<>>]

\* Message::load: a header that cannot be read makes an empty text of the user.
LoadMessage(f, p) ==
    IF p + 16 > Len(f)
    THEN [pos |-> Len(f), role |-> "User", content |-> <<EmptyText>>, huge |-> FALSE]
    ELSE LET body == LoadPieces(f, p + 16, Value(f, p + 8, 8))
         IN  [pos |-> body.pos, role |-> RoleOfCode(Value(f, p + 4, 4)),
              content |-> body.pieces, huge |-> body.huge]

\* Messages::push_back of the next message, r being what has been read.
ReadMessage(f, r) ==
    LET m    == LoadMessage(f, r.pos)
        role == RoleOf(r.history, m.role)
    IN  [pos |-> m.pos, history |-> Pushed(r.history, role, m.content, r.round),
         round |-> RoundAfter(r.history, role, r.round), huge |-> r.huge \/ m.huge]

HeaderLength == Len(Magic) + 8

LoadMessages(f, n) ==
    LET read[i \in 0 .. n] ==
            IF i = 0 THEN [pos |-> HeaderLength, history |-> <<>>, round |-> -1,
                           huge |-> FALSE]
            ELSE ReadMessage(f, read[i - 1])
    IN  read[n]

HasHeader(f) == Len(f) >= HeaderLength
Opens(f)     == SubSeq(f, 1, Len(Magic)) = Magic
LoadedFrom(f) == LoadMessages(f, Value(f, Len(Magic), 8))

\* BaseModel::load_session and HeterogeneousModel::load_session.
CacheLength == Len(cache)

IsOfModel(f, p) ==
    /\ p + Len(ModelType) <= Len(f)
    /\ SubSeq(f, p + 1, p + Len(ModelType)) = ModelType

ModelLoads(f, p) == IsOfModel(f, p) /\ p + Len(ModelType) + CacheLength <= Len(f)

CacheAtType(f, p) ==  \* mutant: from where the type is
    [i \in DOMAIN cache |-> IF IsOfModel(f, p) /\ p + i <= Len(f) THEN f[p + i] ELSE cache[i]]

\* The cache is overwritten as far as the file goes.
CacheAt(f, p) ==
    LET start == p + Len(ModelType)
    IN  [i \in DOMAIN cache |-> IF IsOfModel(f, p) /\ start + i <= Len(f)
                                THEN f[start + i] ELSE cache[i]]

-----------------------------------------------------------------------------
Init ==
    /\ history \in Histories /\ cursor = Len(history)
    /\ round = IF history = <<>> THEN -1 ELSE LastMessage(history).round
    /\ cache \in Caches
    /\ file = NoFile /\ result = "none" /\ intended = NoFile

\* Pipeline::save_session.  Only the write of the header is looked at.  (What a
\* load that fails leaves behind is not saved.)
SaveSession ==
    /\ result # "thrown" /\ history \in Histories
    /\ LET whole == SavedSession(history, cache) IN
       \E room \in 0 .. Len(whole) :
          /\ file' = SubSeq(whole, 1, room)
          /\ result' = IF room < HeaderLength THEN "failed" ELSE "saved"
    /\ intended' = [history |-> history, cache |-> cache]
    /\ UNCHANGED <<messagesVars, cache>>

\* Pipeline::load_session of a file that is too short, or not a session: the
\* history is cleared as soon as there are bytes enough.
LoadNoSession ==
    /\ result # "thrown"
    /\ file # NoFile
    /\ ~(HasHeader(file) /\ Opens(file))
    /\ IF HasHeader(file) THEN Clear ELSE UNCHANGED messagesVars
    /\ result' = "failed"
    /\ UNCHANGED <<cache, file, intended>>

\* Pipeline::load_session otherwise.
LoadSession ==
    /\ result # "thrown"
    /\ file # NoFile /\ HasHeader(file) /\ Opens(file)
    /\ LET l == LoadedFrom(file) IN
       /\ history' = l.history /\ round' = l.round /\ cursor' = Len(l.history)
       /\ result' = IF ModelLoads(file, l.pos) THEN "loaded" ELSE "failed"
       /\ cache' = CacheAt(file, l.pos)
    /\ UNCHANGED <<file, intended>>

\* There is no memory for a string of a length that was never written.
LoadThrows ==
    /\ result # "thrown"
    /\ file # NoFile /\ HasHeader(file) /\ Opens(file)
    /\ LoadedFrom(file).huge
    /\ result' = "thrown"
    /\ UNCHANGED <<messagesVars, cache, file, intended>>

\* Another process, with what its model has computed.
Exec ==
    /\ Clear
    /\ cache' \in Caches
    /\ result' = "none"
    /\ UNCHANGED <<file, intended>>

Next == SaveSession \/ LoadNoSession \/ LoadSession \/ LoadThrows \/ Exec

Spec == Init /\ [][Next]_vars

-----------------------------------------------------------------------------
(* Properties. *)

Said(h) == [i \in DOMAIN h |-> [role |-> h[i].role, content |-> h[i].content,
                                round |-> h[i].round]]

\* A load that reports success has given back what was saved, the messages and
\* the model's cache, from whatever part of the file had reached the disk.
LoadIsSound ==
    result = "loaded" => /\ Said(history) = Said(intended.history)
                         /\ cache = intended.cache

\* Whatever part of it reached the disk, no session with messages is ever loaded: the
\* reader takes a role for the number of pieces and runs through the whole file.
NoMessagesAreLoaded == result = "loaded" => intended.history = <<>>

\* A session of the system prompt that has been written whole is loaded, whatever
\* the model has computed since, and gives the cache back.
PromptSessionsLoad ==
    [][(LoadNoSession \/ LoadSession \/ LoadThrows)
          /\ intended.history = <<>> /\ file = SavedSession(<<>>, intended.cache) =>
                result' = "loaded" /\ history' = <<>> /\ cache' = intended.cache]_vars

\* `--save_session N FILE: save session to FILE after N round(s) of chatting',
\* `--load_session FILE: load session from FILE' (main.cpp): what was saved whole
\* can be loaded.
SavedCanBeLoaded ==
    [][file # NoFile /\ file' = file /\ result' # result
            /\ file = SavedSession(intended.history, intended.cache) =>
                result' \notin {"failed", "thrown"}]_vars
=============================================================================
