------------------------------- MODULE Frames -------------------------------
(* The messages of the Soulseek protocol as protocol.rs writes and reads    *)
(* them: first how a field is written to bytes and read from them (the push_ *)
(* functions and PayloadReader), then what each message consists of, on which *)
(* connection it is sent and under which code.  A message is a sequence of  *)
(* fields, a field a record that says what it is; a field that may be       *)
(* missing has the value <<>> or <<v>>.  Texts are sequences of ASCII bytes  *)
(* and of Bad, a byte that no UTF-8 text has.  Numbers above all limits are  *)
(* one, Huge.  Heard is what the parse_ functions expect, Told what the     *)
(* _frame functions write.  What the server alone reads is in Told alone,    *)
(* what only others write in Heard alone.                                    *)
EXTENDS Integers, Sequences, SequencesExt, TLC

CONSTANT Limit                  \* the MAX_ constants of protocol.rs, a record

Huge == 256 ^ 3
Bad == 255
Replacement == <<239, 191, 189>>                       \* U+FFFD in UTF-8
Space == 32
Dot == 46
Slash == 47
Backslash == 92
Upper(c) == IF c \in 97..122 THEN c - 32 ELSE c
Lower(c) == IF c \in 65..90 THEN c + 32 ELSE c

-----------------------------------------------------------------------------
(* The kinds of fields.                                                    *)
Number(width) == [is |-> "number", width |-> width]
U8 == Number(1)
U16 == Number(2)
U32 == Number(4)
U64 == Number(8)
Constant(width, n) == [is |-> "constant", width |-> width, value |-> n]
Flag == [is |-> "flag"]
Level == [is |-> "level"]
Text(as, least, most) ==
  [is |-> "text", as |-> as, least |-> least, most |-> most]
Plain == Text("lossy", 0, Huge)
Exact == Text("exact", 0, Huge)
Path == Text("path", 0, Huge)
Country == Text("country", 0, Huge)
Username == Text("lossy", 1, Limit.user)
Roomname == Text("room", 1, Limit.room)
File == [is |-> "file"]
List(most, of) == [is |-> "list", most |-> most, size |-> 0, of |-> of]
SizedList(most, size, of) == [is |-> "list", most |-> most, size |-> size, of |-> of]
Group(layout) == [is |-> "group", of |-> layout]
Optional(least, of) == [is |-> "optional", least |-> least, of |-> of]
Always(of) == [is |-> "always", of |-> of]
Given(at, value, of) == [is |-> "given", at |-> at, value |-> value, holds |-> TRUE, of |-> of]
Unless(at, value, of) == [Given(at, value, of) EXCEPT !.holds = FALSE]
End == [is |-> "end"]

-----------------------------------------------------------------------------
(* Writing.                                                                *)
Bytes(n, width) ==
  [i \in 1..width |-> IF n < 0 THEN 255
                      ELSE IF i > 4 THEN 0 ELSE (n \div 256 ^ (i - 1)) % 256]

FileLayout ==
  <<U8, Path, U64, Plain, List(Limit.attributes, Group(<<U32, U32>>))>>

(* push_folder_file: the attributes a file has, in the order of their codes. *)
Known == {0, 1, 2, 4, 5}
FileFields(file) ==
  LET attribute(code) == <<code, file.attributes[code][1]>>
      present == SelectSeq(<<0, 1, 2, 4, 5>>, LAMBDA code : file.attributes[code] # <<>>)
  IN  <<1, file.name, file.size, file.extension,
        [i \in DOMAIN present |-> attribute(present[i])]>>

RECURSIVE Written(_, _)
Written(f, v) ==
  LET all(fields) == FlattenSeq([i \in DOMAIN v |-> Written(fields[i], v[i])])
  IN  CASE f.is \in {"number", "constant"} -> Bytes(v, f.width)
        [] f.is = "flag"  -> <<IF v THEN 1 ELSE 0>>
        [] f.is = "level" -> Bytes(v, 4)
        [] f.is = "text"  -> Bytes(Len(v), 4) \o v
        [] f.is = "file"  -> all(FileLayout)
        [] f.is = "list"  -> Bytes(Len(v), 4) \o all([i \in DOMAIN v |-> f.of])
        [] f.is = "group" -> all(f.of)
        [] f.is \in {"optional", "always", "given"} ->
             all([i \in DOMAIN v |-> f.of])
        [] f.is = "end"   -> <<>>

-----------------------------------------------------------------------------
(* What the values mean, once they are read.                               *)
Lossy(s) ==
  FlattenSeq([i \in DOMAIN s |-> IF s[i] = Bad THEN Replacement ELSE <<s[i]>>])
Lowered(s) == [i \in DOMAIN s |-> Lower(s[i])]
Replaced(s) == [i \in DOMAIN s |-> IF s[i] = Slash THEN Backslash ELSE s[i]]
Trimmed(s) ==
  LET inner == {i \in DOMAIN s : s[i] # Space}
  IN  IF inner = {} THEN <<>>
      ELSE SubSeq(s, CHOOSE i \in inner : \A j \in inner : i <= j,
                     CHOOSE i \in inner : \A j \in inner : j <= i)

(* read_room_name: no space at an end and no two together.                 *)
ValidRoom(s) ==
  /\ \A i \in DOMAIN s : s[i] \in 33..126 \cup {Space}
  /\ s[1] # Space /\ s[Len(s)] # Space
  /\ \A i \in 2..Len(s) : ~(s[i - 1] = Space /\ s[i] = Space)

(* normalize_country_code *)
CountryCode(s) ==
  LET code == [i \in DOMAIN Trimmed(s) |-> Upper(Trimmed(s)[i])]
  IN  IF Len(code) = 2 /\ \A i \in 1..2 : code[i] \in 65..90 THEN <<code>> ELSE <<>>

ValidText(f, bytes) ==
  LET s == Lossy(bytes)
  IN  CASE f.as = "picture" -> Len(bytes) <= f.most
        [] f.as \in {"exact", "ascii"} -> Bad \notin {bytes[i] : i \in DOMAIN bytes}
                             /\ Len(bytes) \in f.least..f.most
        [] f.as = "room"  -> Len(s) \in f.least..f.most /\ ValidRoom(s)
        [] OTHER          -> Len(s) \in f.least..f.most
TextOf(f, bytes) ==
  CASE f.as = "picture" -> bytes
    [] f.as = "path"    -> Replaced(Lossy(bytes))
    [] f.as = "country" -> CountryCode(Lossy(bytes))
    [] OTHER            -> Lossy(bytes)

(* read_folder_file: the extension is the one supplied or what follows the *)
(* last dot; of an attribute that comes twice the last counts.             *)
FileOf(v) ==
  LET dots == {i \in DOMAIN v[2] : v[2][i] = Dot}
      last == CHOOSE i \in dots : \A j \in dots : j <= i
      values(code) == SelectSeq(v[5], LAMBDA a : a[1] = code)
  IN  [name |-> v[2], size |-> v[3],
       extension |-> IF v[4] # <<>> THEN Lowered(v[4])
                     ELSE IF dots = {} THEN <<>>
                     ELSE Lowered(SubSeq(v[2], last + 1, Len(v[2]))),
       attributes |-> [code \in Known |->
         IF values(code) = <<>> THEN <<>>
         ELSE LET n == Last(values(code))[2]
              IN  <<IF code = 2 THEN IF n = 0 THEN 0 ELSE 1 ELSE n>>]]

-----------------------------------------------------------------------------
(* Reading: a value and the bytes that are left, or a refusal.             *)
Took(value, left) == [ok |-> TRUE, value |-> value, left |-> left]
Refused == [ok |-> FALSE]
Mapped(r, Op(_)) == IF r.ok THEN Took(Op(r.value), r.left) ELSE Refused
Checked(r, Holds(_)) == IF r.ok /\ Holds(r.value) THEN r ELSE Refused

(* read_bytes *)
Take(s, n) ==
  IF n <= Len(s) THEN Took(SubSeq(s, 1, n), SubSeq(s, n + 1, Len(s))) ELSE Refused
NumberIn(b) ==
  IF \E i \in 4..Len(b) : b[i] # 0 THEN Huge
  ELSE FoldRight(LAMBDA x, n : x + 256 * n, b, 0)
TakeNumber(s, width) == Mapped(Take(s, width), NumberIn)
TakeText(f, s) ==
  LET length == TakeNumber(s, 4)
  IN  IF length.ok
      THEN Mapped(Checked(Take(length.left, length.value), LAMBDA b : ValidText(f, b)),
                  LAMBDA b : TextOf(f, b))
      ELSE Refused

(* The optional fields at the end of a message are there when enough bytes *)
(* remain for their first number.                                          *)
IsThereAndMore(f, s) == Len(s) > f.least   \* mutant: an off-by-one

IsThere(f, s) == Len(s) >= f.least

RECURSIVE Read(_, _, _), ReadAll(_, _, _)
Read(f, s, got) ==
  CASE f.is = "number" -> TakeNumber(s, f.width)
    [] f.is = "constant" -> Checked(TakeNumber(s, f.width), LAMBDA n : n = f.value)
    [] f.is = "flag" -> Mapped(Take(s, 1), LAMBDA b : b[1] # 0)
    [] f.is = "level" ->
         Mapped(Checked(Take(s, 4), LAMBDA b : b[4] < 128), NumberIn)
    [] f.is = "text" -> TakeText(f, s)
    [] f.is = "file" -> Mapped(ReadAll(FileLayout, s, <<>>), FileOf)
    [] f.is = "list" ->
         LET n == TakeNumber(s, 4)
         IN  IF n.ok /\ n.value <= f.most /\ n.value * f.size <= Len(n.left)
             THEN ReadAll([i \in 1..n.value |-> f.of], n.left, <<>>)
             ELSE Refused
    [] f.is = "group" -> ReadAll(f.of, s, <<>>)
    [] f.is = "optional" ->
         IF IsThere(f, s) THEN Mapped(Read(f.of, s, got), LAMBDA v : <<v>>)
         ELSE Took(<<>>, s)
    [] f.is = "given" ->
         IF (got[f.at] = f.value) = f.holds
         THEN Mapped(Read(f.of, s, got), LAMBDA v : <<v>>)
         ELSE Took(<<>>, s)
    [] f.is = "end" -> IF s = <<>> THEN Took("end", s) ELSE Refused
ReadAll(layout, s, got) ==
  IF layout = <<>> THEN Took(got, s)
  ELSE LET first == Read(Head(layout), s, got)
       IN  IF first.ok
           THEN ReadAll(Tail(layout), first.left, Append(got, first.value))
           ELSE Refused

(* zlib, as far as it is used: what was cut short cannot be inflated.      *)
Deflate(s) == <<120>> \o s \o <<120>>
Inflate(s) ==
  IF Len(s) > 1 /\ s[1] = 120 /\ s[Len(s)] = 120 /\ Len(s) - 2 <= Limit.inflated
  THEN Took(SubSeq(s, 2, Len(s) - 1), <<>>)
  ELSE Refused

-----------------------------------------------------------------------------
(* The messages.                                                            *)

Message(on, code, layout) ==
  [on |-> on, code |-> code, layout |-> layout, zipped |-> FALSE]
Zipped(on, code, layout) == [Message(on, code, layout) EXCEPT !.zipped = TRUE]

-----------------------------------------------------------------------------
(* What Forever reads.                                                      *)
InvalidUsername == <<73>>                     \* the one reason with a detail
LoginReply ==
  <<Flag,
    Given(1, TRUE, Group(<<Exact, U32, Exact, Flag>>)),
    Given(1, FALSE, Group(<<Exact, Given(1, InvalidUsername, Optional(1, Exact))>>))>>
PeerAddress == <<Plain, U32, U32, Optional(4, U32), Optional(2, U16)>>
UserReply ==
  <<Username, Flag,
    Given(2, TRUE,
      Group(<<U32, U32, U32, U32, U32, U32, Unless(1, 0, Optional(4, Country))>>))>>
UserStatus == <<Username, U32, Flag>>
UserStats == <<Username, U32, U32, U32, U32, U32>>
Interests == List(Limit.interests, Text("lossy", 1, Limit.interest))
UserInterests == <<Username, Interests, Interests>>
RoomSaid == <<Roomname, Username, Text("lossy", 1, Limit.roomMessage)>>
RoomJoined ==
  <<Roomname, List(Limit.members, Username), List(Limit.members, U32),
    List(Limit.members, Group(<<U32, U32, U32, U32, U32>>)), List(Limit.members, U32),
    Optional(4, List(Limit.members, Country))>>
UserJoined == <<Roomname, Username, U32, U32, U32, U32, U32, U32, U32, Country>>
UserLeft == <<Roomname, Username>>
RoomList == <<List(Limit.rooms, Roomname), List(Limit.rooms, U32)>>
ConnectRequest == <<Plain, Plain, U32, U32, U32, Flag, U32, U32>>
PrivateMessage ==
  <<U32, U32, Username, Text("lossy", 1, Limit.privateMessage), Flag>>
SearchRequest == <<Plain, U32, Plain>>
Privileged == <<SizedList(Limit.privileged, 5, Text("exact", 1, Limit.user)), End>>
Excluded == <<List(Limit.phrases, Text("exact", 0, Limit.phrase)), End>>
Parents == <<List(Limit.parents, Group(<<Plain, U32, U32>>))>>
BranchSearch ==
  <<Constant(4, 49), Username, U32, Text("lossy", 1, Limit.query)>>

Info ==
  <<Text("lossy", 0, Limit.description), Flag,
    Given(2, TRUE, Text("picture", 0, Limit.picture)), U32, U32, Flag, Optional(4, U32)>>
SearchReply ==
  <<Plain, U32, List(Limit.results, File), Flag, U32, U32,
    Optional(4, U32), Optional(4, List(Limit.results, File))>>
FolderReply ==
  <<U32, Path, List(Limit.folders, Group(<<Path, List(Limit.folderFiles, File)>>))>>
Directories == List(Limit.shareFolders, Group(<<Path, List(Limit.shareFiles, File)>>))
Shares == <<Directories, U32, Directories>>
TransferRequest == <<U32, U32, Path, Given(1, 1, U64)>>
TransferResponse == <<U32, Flag, Given(2, FALSE, Plain)>>

FromServer ==
  [login         |-> Message("server", 1, LoginReply),
   peerAddress   |-> Message("server", 3, PeerAddress),
   watchUser     |-> Message("server", 5, UserReply),
   userStatus    |-> Message("server", 7, UserStatus),
   roomMessage   |-> Message("server", 13, RoomSaid),
   joinRoom      |-> Message("server", 14, RoomJoined),
   leaveRoom     |-> Message("server", 15, <<Roomname>>),
   userJoined    |-> Message("server", 16, UserJoined),
   userLeft      |-> Message("server", 17, UserLeft),
   connectToPeer |-> Message("server", 18, ConnectRequest),
   privateMessage |-> Message("server", 22, PrivateMessage),
   search        |-> Message("server", 26, SearchRequest),
   userStats     |-> Message("server", 36, UserStats),
   userInterests |-> Message("server", 57, UserInterests),
   roomList      |-> Message("server", 64, RoomList),
   privileged    |-> Message("server", 69, Privileged),
   embedded      |-> Message("server", 93, <<Constant(1, 3)>> \o BranchSearch),
   parents       |-> Message("server", 102, Parents),
   wishInterval  |-> Message("server", 104, <<U32, End>>),
   excluded      |-> Message("server", 160, Excluded),
   cantConnect   |-> Message("server", 1001, <<U32>>)]
FromPeers ==
  [shares        |-> Zipped("peer", 5, Shares),
   searchReply   |-> Zipped("peer", 9, SearchReply),
   info          |-> Message("profile", 16, Info),
   folderRequest |-> Message("peer", 36, <<U32, Path>>),
   folder        |-> Zipped("peer", 37, FolderReply),
   transferRequest  |-> Message("peer", 40, TransferRequest),
   transferResponse |-> Message("peer", 41, TransferResponse),
   queueUpload   |-> Message("peer", 43, <<Path>>),
   queuePlace    |-> Message("peer", 44, <<Path, U32>>),
   uploadFailed  |-> Message("peer", 46, <<Path>>),
   uploadDenied  |-> Message("peer", 50, <<Path, Plain>>),
   placeRequest  |-> Message("peer", 51, <<Path>>),
   pierce        |-> Message("init", 0, <<U32>>),
   peerInit      |-> Message("init", 1, <<Plain, Plain, Optional(4, U32)>>),
   branchSearch  |-> Message("branch", 3, BranchSearch),
   branchLevel   |-> Message("branch", 4, <<Level>>),
   branchRoot    |-> Message("branch", 5, <<Username>>)]
HeardTable == FromServer @@ FromPeers

-----------------------------------------------------------------------------
(* What Forever writes.                                                     *)
InfoTold ==
  <<Text("lossy", 0, Limit.description), Flag,
    Given(2, TRUE, Text("picture", 0, Limit.picture)), U32, U32, Flag, Always(U32)>>
FilesTold == List(Huge, File)
SearchReplyTold ==
  <<Plain, U32, FilesTold, Flag, U32, U32, Always(Constant(4, 0)), Always(FilesTold)>>
FolderTold == List(Huge, Group(<<Plain, FilesTold>>))
SharesTold == <<FolderTold, Constant(4, 0), FolderTold>>
TransferTold == <<Constant(4, 1), U32, Plain, Always(U64)>>
LoginTold == <<Plain, Plain, Constant(4, 177), Plain, Constant(4, 3)>>
PrivateTold == <<Username, Text("lossy", 1, Limit.privateMessage)>>
RoomTold == <<Text("ascii", 1, Limit.room), Text("lossy", 1, Limit.roomMessage)>>
SearchTold == <<U32, Plain>>

ToServer ==
  [login         |-> Message("service", 1, LoginTold),
   setWaitPort   |-> Message("service", 2, <<U32>>),
   getPeerAddress |-> Message("service", 3, <<Plain>>),
   watchUser     |-> Message("service", 5, <<Plain>>),
   unwatchUser   |-> Message("service", 6, <<Plain>>),
   sayChatroom   |-> Message("service", 13, RoomTold),
   joinRoom      |-> Message("service", 14, <<Plain, Constant(4, 0)>>),
   leaveRoom     |-> Message("service", 15, <<Plain>>),
   connectToPeer |-> Message("service", 18, <<U32, Plain, Plain>>),
   messageUser   |-> Message("service", 22, PrivateTold),
   messageAcked  |-> Message("service", 23, <<U32>>),
   fileSearch    |-> Message("service", 26, SearchTold),
   setOnline     |-> Message("service", 28, <<Constant(4, 2)>>),
   ping          |-> Message("service", 32, <<>>),
   sharedCounts  |-> Message("service", 35, <<U32, U32>>),
   userStats     |-> Message("service", 36, <<Plain>>),
   userInterests |-> Message("service", 57, <<Plain>>),
   roomList      |-> Message("service", 64, <<>>),
   haveNoParent  |-> Message("service", 71, <<Flag>>),
   acceptChildren |-> Message("service", 100, <<Flag>>),
   wishlistSearch |-> Message("service", 103, SearchTold),
   uploadSpeed   |-> Message("service", 121, <<U32>>),
   levelTold     |-> Message("service", 126, <<U32>>),
   rootTold      |-> Message("service", 127, <<Plain>>),
   cantConnect   |-> Message("service", 1001, <<U32, Plain>>)]
ToPeers ==
  [shares        |-> Zipped("peer", 5, SharesTold),
   searchReply   |-> Zipped("peer", 9, SearchReplyTold),
   info          |-> Message("profile", 16, InfoTold),
   folderRequest |-> Message("peer", 36, <<U32, Plain>>),
   folder        |-> Zipped("peer", 37, <<U32, Plain, FolderTold>>),
   transferRequest  |-> Message("peer", 40, TransferTold),
   transferResponse |-> Message("peer", 41, TransferResponse),
   queueUpload   |-> Message("peer", 43, <<Plain>>),
   queuePlace    |-> Message("peer", 44, <<Plain, U32>>),
   uploadDenied  |-> Message("peer", 50, <<Plain, Plain>>),
   placeRequest  |-> Message("peer", 51, <<Plain>>),
   pierce        |-> Message("init", 0, <<U32>>),
   peerInit      |-> Message("init", 1, <<Plain, Plain, Always(Constant(4, 0))>>),
   branchLevel   |-> Message("branch", 4, <<U32>>),
   branchRoot    |-> Message("branch", 5, <<Plain>>)]
ToldTable == ToServer @@ ToPeers

-----------------------------------------------------------------------------
(* What the parse_ functions make of the fields they have read.             *)
At(values, i, otherwise) == IF i \in DOMAIN values THEN values[i] ELSE otherwise
Nothing == <<0, 0, 0, 0, 0>>
Members(v) ==
  LET countries == IF v[6] = <<>> THEN <<>> ELSE v[6][1]
  IN  [i \in DOMAIN v[2] |->
        [user |-> v[2][i], status |-> At(v[3], i, 0), statistics |-> At(v[4], i, Nothing),
         free |-> i \in DOMAIN v[5] /\ v[5][i] = 0, country |-> At(countries, i, <<>>)]]
Marked(files, private) == [i \in DOMAIN files |-> <<files[i], private>>]
Results(v) ==
  Marked(v[3], FALSE) \o (IF v[8] = <<>> THEN <<>> ELSE Marked(v[8][1], TRUE))
Reachable(v) ==
  SelectSeq(v[1], LAMBDA p : Len(p[1]) \in 1..Limit.user /\ p[3] \in 1..65535)

Understood(kind, v) ==
  CASE kind = "joinRoom"    -> <<v[1], Members(v)>>
    [] kind = "roomList"    -> [i \in DOMAIN v[1] |-> <<v[1][i], At(v[2], i, 0)>>]
    [] kind = "searchReply" -> <<v[1], v[2], Results(v), v[4], v[5], v[6]>>
    [] kind = "shares"      -> Marked(v[1], FALSE) \o Marked(v[3], TRUE)
    [] kind = "parents"     -> Reachable(v)
    [] kind = "peerAddress" -> SubSeq(v, 1, 3)
    [] OTHER                -> v

(* The counts that are bounded over all folders of a message.               *)
FilesIn(folders) == FoldFunction(LAMBDA f, n : n + Len(f[2]), 0, folders)
TotalsHold(kind, v) ==
  CASE kind = "folder" -> FilesIn(v[3]) <= Limit.folderTotal
    [] kind = "shares" -> FilesIn(v[1]) + FilesIn(v[3]) <= Limit.shareFiles
    [] OTHER           -> TRUE
=============================================================================
