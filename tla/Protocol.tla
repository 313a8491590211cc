------------------------------ MODULE Protocol ------------------------------
(* A connection that carries messages of Forever, or of the server and of  *)
(* other clients (protocol.rs read_frame and its kin, and what peers.rs,   *)
(* network.rs and hubs.rs do with a message they cannot read).  Others may *)
(* leave out the end of a message or append to it, send codes Forever does *)
(* not know, and close the connection anywhere.                            *)
EXTENDS Frames

CONSTANTS Heard, Told,          \* HeardTable and ToldTable
          OwnLetters,           \* the values Forever sends, by kind
          OtherLetters,         \* and those of the server and of other clients
          MaxCut                \* how many bytes others leave out, or send last

VARIABLES sent, stream, heard, connection

(* Messages of later versions.                                             *)
Foreign ==
  [newServer |-> Message("server", 200, <<U32>>), newPeer |-> Message("peer", 200, <<U32>>),
   newInit   |-> Message("init", 2, <<U32>>), newBranch |-> Message("branch", 6, <<U32>>)]
Description(m) ==
  IF m.own THEN Told[m.kind]
  ELSE IF m.kind \in DOMAIN Heard THEN Heard[m.kind] ELSE Foreign[m.kind]

(* The connection of a message, how long its codes are, and how long a     *)
(* frame on it may be.                                                     *)
Width(on) == IF on \in {"init", "branch"} THEN 1 ELSE 4
FrameLimit(on) ==
  CASE on = "server"  -> Limit.frame
    [] on = "peer"    -> Limit.peerFrame
    [] on = "profile" -> Limit.profileFrame
    [] on = "init"    -> Limit.initFrame
    [] on = "branch"  -> Limit.branchFrame
    [] on = "service" -> Huge

(* The parse_ functions.                                                   *)
Parse(kind, payload) ==
  LET m == Heard[kind]
      content == IF m.zipped THEN Inflate(payload) ELSE Took(payload, <<>>)
      fields == IF content.ok THEN ReadAll(m.layout, content.value, <<>>) ELSE Refused
  IN  IF fields.ok /\ TotalsHold(kind, fields.value)
      THEN Took(Understood(kind, fields.value), fields.left)
      ELSE Refused

-----------------------------------------------------------------------------
(* What the fields of a message mean, without a look at the bytes.         *)
RECURSIVE Meaning(_, _, _), MeaningAll(_, _, _)
Meaning(f, v, got) ==
  CASE f.is \in {"number", "flag", "end"} -> Took(v, <<>>)
    [] f.is = "constant" -> IF v = f.value THEN Took(v, <<>>) ELSE Refused
    [] f.is = "level"    -> IF v >= 0 THEN Took(v, <<>>) ELSE Refused
    [] f.is = "text"     -> IF ValidText(f, v) THEN Took(TextOf(f, v), <<>>) ELSE Refused
    [] f.is = "file"     -> Mapped(MeaningAll(FileLayout, v, <<>>), FileOf)
    [] f.is = "group"    -> MeaningAll(f.of, v, <<>>)
    [] f.is = "list"     ->
         IF Len(v) <= f.most THEN MeaningAll([i \in DOMAIN v |-> f.of], v, <<>>)
         ELSE Refused
    [] f.is \in {"optional", "always"} ->
         MeaningAll([i \in DOMAIN v |-> f.of], v, <<>>)
    [] f.is = "given"    ->
         IF (got[f.at] = f.value) = f.holds
         THEN Mapped(Meaning(f.of, v[1], got), LAMBDA x : <<x>>)
         ELSE Took(<<>>, <<>>)
MeaningAll(layout, v, got) ==
  IF Len(got) = Len(layout) THEN Took(got, <<>>)
  ELSE LET i == Len(got) + 1
           this == Meaning(layout[i], v[i], got)
       IN  IF this.ok THEN MeaningAll(layout, v, Append(got, this.value)) ELSE Refused

Meant(kind, v) ==
  LET fields == MeaningAll(Heard[kind].layout, v, <<>>)
  IN  IF fields.ok /\ TotalsHold(kind, fields.value)
      THEN Took(Understood(kind, fields.value), <<>>)
      ELSE Refused

-----------------------------------------------------------------------------
(* encode_message, encode_compressed_message, peer_init_frame,             *)
(* pierce_firewall_frame, and encode of branch.rs                          *)
Fields(m) == Written(Group(Description(m).layout), m.values)
Content(m) ==
  IF m.change > 0 THEN Append(Fields(m), 0)
  ELSE SubSeq(Fields(m), 1, Len(Fields(m)) + m.change)
Frame(m) ==
  LET d == Description(m)
      payload == IF d.zipped THEN Deflate(Content(m)) ELSE Content(m)
  IN  Bytes(Len(payload) + Width(d.on), 4) \o Bytes(d.code, Width(d.on)) \o payload

Letter(kind, own, values, change) ==
  [kind |-> kind, own |-> own, values |-> values, change |-> change]
(* After the message that opens a connection come those of other users; on *)
(* the others more of the same.                                            *)
Follower(on) ==
  LET message(kind, own, values) == Letter(kind, own, values, 0)
  IN  CASE on = "service" -> message("ping", TRUE, <<>>)
        [] on = "server"  -> message("cantConnect", FALSE, <<258>>)
        [] on = "branch"  -> message("branchLevel", TRUE, <<258>>)
        [] on = "profile" -> message("info", TRUE, <<<<97>>, FALSE, <<>>, 1, 258, TRUE, <<0>>>>)
        [] on \in {"peer", "init"} -> message("queueUpload", TRUE, <<<<97>>>>)
On(i) ==
  IF i = 1 THEN Description(sent[1]).on
  ELSE Description(Follower(Description(sent[1]).on)).on

FrameInit == sent = <<>> /\ stream = <<>> /\ heard = <<>> /\ connection = "open"

(* The checks of message_user_frame, say_chatroom_frame and                *)
(* user_info_response_frame: what they refuse is not sent.                 *)
Sendable(m) == m.own => MeaningAll(Told[m.kind].layout, m.values, <<>>).ok

Send(m) ==
  /\ Sendable(m)
  /\ LET next == Follower(Description(m).on)
     IN  /\ sent' = <<m, next>>
         /\ stream' = Frame(m) \o Frame(next)
  /\ UNCHANGED <<heard, connection>>
SendOwn(kind) ==
  sent = <<>> /\ \E v \in OwnLetters[kind] : Send(Letter(kind, TRUE, v, 0))
SendOther(kind) ==
  /\ sent = <<>>
  /\ \E v \in OtherLetters[kind] :
       \E n \in (0 - MaxCut) .. 1 :
         /\ 0 - n <= Len(Fields(Letter(kind, FALSE, v, 0)))
         /\ Send(Letter(kind, FALSE, v, n))
SendForeign(kind) == sent = <<>> /\ Send(Letter(kind, FALSE, <<1>>, 0))

(* The other side is gone after n more bytes.                              *)
Break(n) ==
  /\ sent # <<>> /\ sent[1].change = 0 /\ heard = <<>> /\ connection = "open"
  /\ n < Len(Frame(sent[1]))
  /\ stream' = SubSeq(stream, 1, n)
  /\ connection' = "closed"
  /\ UNCHANGED <<sent, heard>>

(* read_frame_with_limit, read_distributed_frame, read_peer_init            *)
HasLength == Len(stream) >= 4
Length == NumberIn(SubSeq(stream, 1, 4))
HasFrame(on) ==
  HasLength /\ Length \in Width(on)..FrameLimit(on) /\ Len(stream) >= 4 + Length
Kinds(on, code) == {k \in DOMAIN Heard : Heard[k].on = on /\ Heard[k].code = code}

(* What becomes of a message that cannot be read, or is not known: the      *)
(* server and the branch go on with the next one, a peer is left.           *)
Forgiven(on, code, result) ==
  CASE on \in {"service", "branch"} -> TRUE
    [] on = "server"  -> code = 1 => result.ok
    [] on \in {"peer", "profile"} -> Kinds(on, code) # {} => result.ok
    [] on = "init" -> result.ok

Hear ==
  LET on == On(Len(heard) + 1)
      code == NumberIn(SubSeq(stream, 5, 4 + Width(on)))
      payload == SubSeq(stream, 5 + Width(on), 4 + Length)
      result == IF on = "service" \/ Kinds(on, code) = {} THEN Refused
                ELSE Parse(CHOOSE k \in Kinds(on, code) : TRUE, payload)
  IN  /\ Len(heard) < Len(sent) /\ connection # "ended"
      /\ HasFrame(on)
      /\ heard' = Append(heard, IF result.ok THEN Took(result.value, <<>>) ELSE Refused)
      /\ stream' = SubSeq(stream, 5 + Length, Len(stream))
      /\ connection' = IF Forgiven(on, code, result) THEN connection ELSE "ended"
      /\ UNCHANGED sent

(* The length is out of bounds, or the end of the stream came in a frame.   *)
GiveUp ==
  LET on == On(Len(heard) + 1)
  IN  /\ Len(heard) < Len(sent) /\ connection # "ended" /\ ~HasFrame(on)
      /\ connection = "closed" \/ (HasLength /\ Length \notin Width(on)..FrameLimit(on))
      /\ connection' = "ended"
      /\ UNCHANGED <<sent, stream, heard>>

FrameNext ==
  \/ \E kind \in DOMAIN Told : SendOwn(kind)
  \/ \E kind \in DOMAIN Heard : SendOther(kind)
  \/ \E kind \in DOMAIN Foreign : SendForeign(kind)
  \/ \E n \in 0..MaxCut : Break(n)
  \/ Hear
  \/ GiveUp

-----------------------------------------------------------------------------
(* The values of a message with some of the optional fields at its end      *)
(* left out.                                                                *)
RECURSIVE Shorter(_, _, _)
Shorter(layout, v, n) ==
  IF n = 0 THEN {v}
  ELSE LET f == layout[n]
           without(x) == [v EXCEPT ![n] = x]
       IN  CASE f.is \in {"optional", "given"} /\ v[n] = <<>> ->
                  Shorter(layout, v, n - 1)
             [] f.is = "optional" /\ v[n] # <<>> ->
                  {v} \cup Shorter(layout, without(<<>>), n - 1)
             [] f.is = "given" /\ v[n] # <<>> ->
                  CASE f.of.is = "group" ->
                         {without(<<x>>) : x \in Shorter(f.of.of, v[n][1], Len(f.of.of))}
                    [] f.of.is = "optional" -> {v, without(<<<<>>>>)}
                    [] OTHER -> {v}
             [] OTHER -> {v}
Versions(m) ==
  LET layout == Heard[m.kind].layout IN Shorter(layout, m.values, Len(layout))
Strict(kind) == \E i \in DOMAIN Heard[kind].layout : Heard[kind].layout[i].is = "end"

(* A message of Forever is read by Forever as it was meant, and one of      *)
(* another client or the server, too, whatever an older version leaves out  *)
(* at its end and a newer one appends; a message that was cut short is      *)
(* refused or lacks only what may be left out (protocol.rs).                *)
HeardAsMeant ==
  \A i \in DOMAIN heard :
    LET m == sent[i]
        result == heard[i]
        fits == Heard[m.kind].zipped => Len(Content(m)) <= Limit.inflated
    IN  On(i) # "service" /\ m.kind \in DOMAIN Heard =>
          CASE ~fits -> result = Refused
            [] fits /\ m.change = 0 -> result = Meant(m.kind, m.values)
            [] fits /\ m.change > 0 ->
                 result = IF Strict(m.kind) THEN Refused ELSE Meant(m.kind, m.values)
            [] fits /\ m.change < 0 ->
                 /\ result \in {Refused} \cup {Meant(m.kind, v) : v \in Versions(m)}
                 /\ \A v \in Versions(m) :
                      Content(m) = Written(Group(Heard[m.kind].layout), v) =>
                        result = Meant(m.kind, v)

(* No message disturbs the next: it ends the connection, or the next is     *)
(* heard from its first byte on; and the connection ends for no other       *)
(* reason than a message that cannot be borne (protocol.rs, peers.rs).      *)
NoMessageDisturbsTheNext ==
  LET n == Len(heard)
  IN  /\ connection = "open" /\ stream = <<>> => n = Len(sent)
      /\ connection = "ended" =>
           \/ /\ n > 0 /\ ~heard[n].ok
              /\ On(n) \in {"peer", "profile", "init"} \/ sent[n].kind = "login"
           \/ n < 2 /\ Len(Frame(sent[n + 1])) - 4 > FrameLimit(On(n + 1))
           \/ n < 2 /\ Len(stream) < Len(Frame(sent[n + 1]))
      /\ n = 2 => heard[2].ok \/ On(2) = "service"
=============================================================================
