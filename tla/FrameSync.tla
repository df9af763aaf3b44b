----------------------------- MODULE FrameSync ------------------------------
(***************************************************************************)
(* A session: server_handle_client (server/main.c) sends a first frame and *)
(* then, for ever, the regions of the next one that changed, waiting for a *)
(* confirmation after each message; client_mainloop (client/client.c)      *)
(* executes the bytes as they come.  Between them are two TCP streams, and *)
(* the one to the reader holds SockBuf bytes, so a write blocks and a read *)
(* returns a command in pieces.  Sessions follow one another: a reader     *)
(* leaves, is kicked or loses its network at any point, and another comes  *)
(* to a server whose static color survived.                                *)
(*                                                                         *)
(* The handshake and the signals are the subject of other modules: here a  *)
(* session begins after the former and Kick stands for the latter.         *)
(***************************************************************************)
EXTENDS Transfer

CONSTANTS
    Frames,          \* images a screenshot may give
    width_divisor, height_divisor,
    SockBuf,         \* bytes on the way to the reader
    ErrorLength      \* bytes of an error message

ASSUME FramesAssumption  == Frames \subseteq Image /\ Frames # {}
ASSUME DivisorAssumption ==
    width_divisor \in 1 .. W /\ height_divisor \in 1 .. H
ASSUME SockBufAssumption == SockBuf \in Nat \ {0} /\ ErrorLength \in Nat

VARIABLES
    pc,       \* where server_handle_client is; "accept" is outside it
    out,      \* what is left of the write in progress
    after,    \* where the server goes after the write
    region,   \* number of the region sent, 0 for the first frame
    image,    \* image_data: the frame the server believes the reader shows
    next,     \* next_image_data
    color,    \* the static color of transfer.c
    wire,     \* bytes to the reader
    acks,     \* confirmations on the way back
    conn,     \* "none", "up", "srvClosed" or "cliClosed"
    rd,       \* the reader's registers, frame buffer and panel
    buf, at,  \* its receive buffer, and how much of it is executed
    status,   \* client_mainloop: "on", "off", "error" shown, "unsupported"
    first,    \* history: the first frame of the session
    color0    \* history: color when the session began

server == <<pc, out, after, region, image, next, color>>
client == <<rd, buf, at, status>>
net    == <<wire, acks, conn>>
hist   == <<first, color0>>
vars   == <<server, client, net, hist>>

-----------------------------------------------------------------------------
\* The regions of a frame, in the order of the loops of send_next_frame.
region_width  == W \div width_divisor
region_height == H \div height_divisor
Regions ==
    [k \in 1 .. width_divisor * height_divisor |->
        RegionAt((k - 1) \div width_divisor, (k - 1) % width_divisor,
                 region_width, region_height)]
Covered == UNION {Cells(Regions[k]) : k \in DOMAIN Regions}

Blank == CHOOSE f \in Frames : TRUE

Init ==
    /\ pc = "accept" /\ out = <<>> /\ after = "accept" /\ region = 0
    /\ image = Blank /\ next = Blank
    /\ color = 0
    /\ wire = <<>> /\ acks = 0 /\ conn = "none"
    /\ rd = InitReader(0) /\ buf = <<>> /\ at = 0 /\ status = "off"
    /\ first = Blank /\ color0 = 0

\* A reader has passed the handshake.
Connect ==
    /\ pc = "accept" /\ status # "on" /\ conn = "none"
    /\ pc' = "first" /\ region' = 0
    /\ rd' = InitReader(0) /\ buf' = <<>> /\ at' = 0 /\ status' = "on"
    /\ wire' = <<>> /\ acks' = 0 /\ conn' = "up"
    /\ color0' = color
    /\ UNCHANGED <<out, after, image, next, color, first>>

-----------------------------------------------------------------------------
(* The server.                                                             *)

StartWrite(bytes, goto) == pc' = "write" /\ out' = bytes /\ after' = goto

\* The session ends on the server's side; the descriptor is closed.
Leave ==
    /\ pc' = "accept" /\ out' = <<>> /\ after' = "accept" /\ acks' = 0
    /\ conn' = IF conn = "up" THEN "srvClosed" ELSE "none"

\* Mutant of SendFirst: nobody waits for the confirmation.
SendFirstUnconfirmed ==
    /\ pc = "first"
    /\ \E f \in Frames : /\ image' = f /\ first' = f
                         /\ StartWrite(EncodeAll(SendAll(f)), "frame")
    /\ UNCHANGED <<region, next, color, client, net, color0>>

\* send_first_frame
SendFirst ==
    /\ pc = "first"
    /\ \E f \in Frames : /\ image' = f /\ first' = f
                         /\ StartWrite(EncodeAll(SendAll(f)), "confirm")
    /\ UNCHANGED <<region, next, color, client, net, color0>>

\* Mutant of CheckConnection: it waits for a confirmation.
CheckConnectionConfirmed ==
    /\ pc = "frame"
    /\ StartWrite(<<CONN_CHECK>>, "confirm")
    /\ UNCHANGED <<region, image, next, color, client, net, hist>>

\* send_next_frame begins with a CONN_CHECK ...
CheckConnection ==
    /\ pc = "frame"
    /\ StartWrite(<<CONN_CHECK>>, "shot")
    /\ UNCHANGED <<region, image, next, color, client, net, hist>>

\* ... takes a screenshot ...
Shot ==
    /\ pc = "shot"
    /\ next' \in Frames
    /\ pc' = "region" /\ region' = 1
    /\ UNCHANGED <<out, after, image, color, client, net, hist>>

\* Mutant of SendRegion: a region without changes is counted twice.
SendRegionTwice ==
    /\ pc = "region" /\ region \in DOMAIN Regions
    /\ LET d == SendDiff(image, next, Regions[region], color) IN
          /\ color' = d.color
          /\ \/ /\ NeedSend(d)
                /\ StartWrite(EncodeAll(d.cmds), "confirm")
                /\ UNCHANGED region
             \/ /\ ~NeedSend(d)
                /\ region' = region + 2
                /\ UNCHANGED <<pc, out, after>>
    /\ UNCHANGED <<image, next, client, net, hist>>

\* Mutant of SendRegion: the next region follows without a confirmation.
SendRegionUnconfirmed ==
    /\ pc = "region" /\ region \in DOMAIN Regions
    /\ LET d == SendDiff(image, next, Regions[region], color) IN
          /\ color' = d.color
          /\ region' = region + 1
          /\ \/ /\ NeedSend(d)
                /\ StartWrite(EncodeAll(d.cmds), "region")
             \/ /\ ~NeedSend(d)
                /\ UNCHANGED <<pc, out, after>>
    /\ UNCHANGED <<image, next, client, net, hist>>

\* ... and sends the differences region by region.  color keeps what the
\* encoding of this region left in it, whatever becomes of the message.
SendRegion ==
    /\ pc = "region" /\ region \in DOMAIN Regions
    /\ LET d == SendDiff(image, next, Regions[region], color) IN
          /\ color' = d.color
          /\ \/ /\ NeedSend(d)
                /\ StartWrite(EncodeAll(d.cmds), "confirm")
                /\ UNCHANGED region
             \/ /\ ~NeedSend(d)
                /\ region' = region + 1
                /\ UNCHANGED <<pc, out, after>>
    /\ UNCHANGED <<image, next, client, net, hist>>

\* Mutant of EndFrame: image_data is not replaced.
EndFrameKeeps ==
    /\ pc = "region" /\ region \notin DOMAIN Regions
    /\ pc' = "frame"
    /\ UNCHANGED <<out, after, region, image, next, color, client, net, hist>>

EndFrame ==
    /\ pc = "region" /\ region \notin DOMAIN Regions
    /\ image' = next /\ pc' = "frame"
    /\ UNCHANGED <<out, after, region, next, color, client, net, hist>>

\* get_screenshot_data_checked: the error is sent and ends the session.
ShotFails ==
    /\ pc \in {"first", "shot"}
    /\ StartWrite(Encode(CMD_SHOW_ERROR(ErrorLength)), "accept")
    /\ UNCHANGED <<region, image, next, color, client, net, hist>>

\* The kernel takes n more bytes of the write; towards a reader that is gone
\* it may still take them and throw them away.
Write(n) ==
    /\ pc = "write" /\ n <= Len(out)
    /\ \/ /\ conn = "up" /\ Len(wire) + n <= SockBuf
          /\ wire' = wire \o SubSeq(out, 1, n)
       \/ conn = "cliClosed" /\ UNCHANGED wire
    /\ \/ /\ n < Len(out)
          /\ out' = SubSeq(out, n + 1, Len(out))
          /\ UNCHANGED <<pc, after, acks, conn>>
       \/ /\ n = Len(out) /\ after # "accept"
          /\ out' = <<>> /\ pc' = after
          /\ UNCHANGED <<after, acks, conn>>
       \/ n = Len(out) /\ after = "accept" /\ Leave
    /\ UNCHANGED <<region, image, next, color, client, hist>>

\* wait_confirm
RecvConfirm ==
    /\ pc = "confirm" /\ acks > 0
    /\ acks' = acks - 1
    /\ \/ region = 0 /\ pc' = "frame" /\ UNCHANGED region
       \/ region > 0 /\ pc' = "region" /\ region' = region + 1
    /\ UNCHANGED <<out, after, image, next, color, client, wire, conn, hist>>

\* A write or a read of a connection the reader has closed fails: SIGPIPE or
\* the error code ends the session.
TransferFails ==
    /\ conn = "cliClosed"
    /\ pc = "write" \/ (pc = "confirm" /\ acks = 0)
    /\ Leave
    /\ UNCHANGED <<region, image, next, color, client, wire, hist>>

\* SIGINT closes the connection wherever the session is.
Kick ==
    /\ pc # "accept"
    /\ Leave
    /\ UNCHANGED <<region, image, next, color, client, wire, hist>>

-----------------------------------------------------------------------------
(* The reader.                                                             *)

\* The reader's end of the connection is gone, and what was on its way.
HangUp ==
    /\ conn' = IF conn = "up" THEN "cliClosed" ELSE "none"
    /\ wire' = <<>> /\ buf' = <<>> /\ at' = 0

\* The buffer holds something client_exec can act on.
HasCommand ==
    at < Len(buf) /\ (Complete(buf, at + 1) \/ buf[at + 1].cmd \notin Known)

\* client_mainloop moves the incomplete command to the front of the buffer
\* and reads n bytes behind it.
ClientRead(n) ==
    /\ status = "on" /\ ~HasCommand /\ n <= Len(wire)
    /\ buf' = SubSeq(buf, at + 1, Len(buf)) \o SubSeq(wire, 1, n) /\ at' = 0
    /\ wire' = SubSeq(wire, n + 1, Len(wire))
    /\ UNCHANGED <<server, rd, status, acks, conn, hist>>

\* client_exec executes a command; an error message ends the session.
ClientExec ==
    /\ status = "on" /\ HasCommand
    /\ LET st == ExecCommand([rd |-> rd, buf |-> buf, at |-> at,
                              acks |-> 0, stop |-> "no"])
       IN /\ rd' = st.rd
          /\ acks' = IF conn = "up" THEN acks + st.acks ELSE acks
          /\ \/ /\ st.stop = "no"
                /\ buf' = st.buf /\ at' = st.at
                /\ UNCHANGED <<wire, status, conn>>
             \/ /\ st.stop \in {"error", "unsupported"}
                /\ status' = st.stop /\ HangUp
    /\ UNCHANGED <<server, hist>>

\* Mutant of ClientEnd: the end is not noticed inside a command.
ClientEndBetween ==
    /\ status = "on" /\ at = Len(buf) /\ conn = "srvClosed" /\ wire = <<>>
    /\ status' = "off" /\ HangUp
    /\ UNCHANGED <<server, rd, acks, hist>>

\* read returns 0
ClientEnd ==
    /\ status = "on" /\ ~HasCommand /\ conn = "srvClosed" /\ wire = <<>>
    /\ status' = "off" /\ HangUp
    /\ UNCHANGED <<server, rd, acks, hist>>

\* The user stops the monitor, the reader sleeps, or its network is gone.
ClientLeave ==
    /\ status = "on"
    /\ status' = "off" /\ HangUp
    /\ UNCHANGED <<server, rd, acks, hist>>

-----------------------------------------------------------------------------
ServerWrite == \E n \in 1 .. SockBuf : Write(n)
ClientReads == \E n \in 1 .. SockBuf : ClientRead(n)

Server ==
    \/ SendFirst \/ CheckConnection \/ Shot \/ SendRegion \/ EndFrame
    \/ ShotFails \/ ServerWrite \/ RecvConfirm \/ TransferFails
Client == ClientReads \/ ClientExec \/ ClientEnd

Next == Connect \/ Server \/ Kick \/ Client \/ ClientLeave

Spec == Init /\ [][Next]_vars

\* Both programs run; nobody has to connect, kick or leave.
FairSpec == Spec /\ WF_vars(Server) /\ WF_vars(Client)

-----------------------------------------------------------------------------
TypeOK ==
    /\ pc \in {"accept", "first", "frame", "shot", "region", "write", "confirm"}
    /\ after \in {"accept", "shot", "confirm"}
    /\ region \in 0 .. Len(Regions) + 1
    /\ {image, next, first} \subseteq Frames
    /\ {color, color0} \subseteq Colors
    /\ conn \in {"none", "up", "srvClosed", "cliClosed"}
    /\ rd \in Registers
    /\ status \in {"on", "off", "error", "unsupported"}
    /\ Len(wire) <= SockBuf

\* However the streams are cut into reads, and although every confirmation is
\* written over the first byte of the receive buffer, the reader always finds
\* itself at the first byte of a command it knows (client.c:205-207).
Understood == status # "unsupported"

\* The colour of the last pixel of the first frame, which is what the reader
\* remembers after it.
Corner == first[<<W - 1, H - 1>>]

\* When a frame is done, the reader shows it where the regions reach, both
\* drawn and refreshed; except where a pixel has the colour the server
\* remembered from before the session, which it does not send until it has
\* sent another: there the reader may have put the colour IT remembered.
Picture ==
    pc = "frame" =>
        \A q \in Covered :
            /\ rd.panel[q] = rd.fb[q]
            /\ \/ rd.fb[q] = image[q]
               \/ image[q] = color0 /\ rd.fb[q] = Corner

\* From the first confirmation to the end of the session no message touches
\* a pixel outside the regions: it keeps showing the first frame.
Untouched ==
    (conn = "up" /\ (pc \in {"frame", "shot", "region"} \/ region > 0)) =>
        \A q \in Pixel \ Covered :
            rd.fb[q] = first[q] /\ rd.panel[q] = first[q]

\* What someone who looks at the reader is promised (ReaderMirror): its panel
\* changes from each frame to the next one captured, never to a mixture of
\* other frames, and no frame is captured before the panel shows the last.
Phase ==
    CASE conn # "up" \/ (pc = "write" /\ after = "accept") -> "apart"
      [] conn = "up" /\ pc = "first"                         -> "meeting"
      [] conn = "up" /\ region = 0
         /\ (pc = "confirm" \/ (pc = "write" /\ after = "confirm")) -> "first"
      [] conn = "up"
         /\ (pc \in {"frame", "shot"} \/ (pc = "write" /\ after = "shot"))
                                                             -> "showing"
      [] OTHER                                               -> "changing"

Mirror == INSTANCE ReaderMirror WITH
    Mirrored <- Covered, Final <- <<W - 1, H - 1>>,
    phase <- Phase, shown <- rd.panel, frame <- image, coming <- next,
    blind <- color0

FollowsTheScreen == Mirror!Spec

\* Confirmations answer messages one to one: while the server waits, exactly
\* one refresh or its confirmation is under way, and else there is none, so
\* that the server never takes a confirmation for that of another message.
Refreshes(bytes) == Cardinality({k \in DOMAIN bytes : bytes[k].cmd \in Update})
Pending == SubSeq(buf, at + 1, Len(buf))
Outstanding == acks + Refreshes(wire) + Refreshes(Pending)
OneConfirm ==
    conn = "up" =>
        Outstanding = (IF pc = "confirm" THEN 1 ELSE 0)
                      + (IF pc = "write" /\ after = "confirm"
                         THEN 1 - Refreshes(out) ELSE 0)

\* Every frame ends: written, read, executed and confirmed piece by piece,
\* or with the session.  Neither side waits for the other for ever.
FrameEnds ==
    pc \notin {"frame", "accept"} ~> pc \in {"frame", "accept"}

\* A reader whose session the server ended does not stay in its main loop.
ReaderNotices ==
    status = "on" /\ conn = "srvClosed" ~> status # "on"

-----------------------------------------------------------------------------
(* What the protocol's description says.                                   *)

\* protocol.h:27-28: "Values of arguments "color", "x" and "y" are saved
\* between executed commands. At the beginning they set to zeros."  The colour
\* the encoder relies on is the one the protocol's rules give.
ColorsAgree == pc = "frame" => color = rd.color
=============================================================================
