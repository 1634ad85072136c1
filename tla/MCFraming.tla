------------------------------- MODULE MCFraming -------------------------------
(***************************************************************************)
(* Frames for TLC: each part missing, empty, short or longer than a frame's *)
(* own numbers are.                                                        *)
(***************************************************************************)
EXTENDS Framing

Long == <<65, 66, 67, 68, 69, 40, 0, 71, 72, 73, 74>>
Parts == {Undefined, <<>>, Long}
ShortParts == {Undefined, <<65, 66>>}

Of(type, streamIds, fixed, flags, metadata, data) ==
    [type : {type}, streamId : streamIds, fixed : fixed, flag : flags,
     metadata : metadata, data : data]

Requests(parts) ==
    Of(FrameType.REQUEST_RESPONSE, {1}, {<<>>}, {FALSE}, parts, parts)
        \cup Of(FrameType.REQUEST_FNF, {66051}, {<<>>}, {FALSE}, {Undefined}, parts)
Answers(parts) ==
    Of(FrameType.PAYLOAD, {2}, {<<>>}, BOOLEAN, parts, parts)
        \cup Of(FrameType.ERROR, {2}, {<<513>>}, {FALSE}, {Undefined}, parts)
Controls ==
    Of(FrameType.REQUEST_N, {1}, {<<7>>}, {FALSE}, {Undefined}, {Undefined})
        \cup Of(FrameType.CANCEL, {1}, {<<>>}, {FALSE}, {Undefined}, {Undefined})
Streams(parts) ==
    Of(FrameType.REQUEST_STREAM, {1}, {<<3>>}, {FALSE}, parts, parts)
        \cup Of(FrameType.REQUEST_CHANNEL, {1}, {<<3>>}, {FALSE}, {Undefined}, parts)
Keepalives == Of(FrameType.KEEPALIVE, {0}, {<<0>>}, BOOLEAN, {Undefined}, {Undefined})
Setups(parts) == Of(FrameType.SETUP, {0}, {<<5, 9>>}, {FALSE}, parts, parts)
Pushes == Of(FrameType.METADATA_PUSH, {0}, {<<>>}, {FALSE}, ShortParts \ {Undefined},
             {Undefined})

MCAll == Requests(Parts) \cup Answers(Parts) \cup Controls \cup Keepalives
            \cup Streams(ShortParts \cup {Long}) \cup Setups(ShortParts) \cup Pushes
\* Without RESPOND: a cut could make a number of 32 bits of its 0x80.
MCCut == {f \in MCAll : f.type = FrameType.KEEPALIVE => ~f.flag}
MCNone == {}
MCStreams == Streams(ShortParts)
=============================================================================
