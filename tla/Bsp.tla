-------------------------------- MODULE Bsp --------------------------------
(***************************************************************************)
(* The BPP security protocol of pySim/esim/bsp.py and the bound profile    *)
(* package of pySim/esim/es8p.py that is made with it: the SM-DP+ encrypts *)
(* and MACs the sections of the package segment by segment, and the eUICC  *)
(* undoes it segment by segment.                                           *)
(*                                                                         *)
(* Cryptography is symbolic.  A plaintext is its length, a piece of it the *)
(* interval it covers; an ICV is the key and the block number it is made   *)
(* from; a MAC is the term of the key, the chaining value and what it      *)
(* authenticates.  Two MACs are equal when the terms are.                  *)
(***************************************************************************)
EXTENDS Naturals, Sequences

CONSTANTS
  MaxPayload,   \* max_payload_size of a segment
  Size,         \* length of the plaintext of each section
  PpkKey,       \* the keys of the protected profile package
  Keys          \* the session keys two parties may agree on

Sections == {"configureISDP", "storeMetadata", "replaceSessionKeys", "upp"}

ASSUME BspAssumption ==
  /\ MaxPayload \in Nat \ {0}
  /\ Size \in [Sections -> Nat \ {0}]

VARIABLES
  enc,    \* the encoder, BoundProfilePackage.encode
  bpp,    \* the segments of each section, as they are on the wire
  dec     \* the decoder, BoundProfilePackage.decode

bspVars == <<enc, bpp, dec>>

(* A fresh BspInstance: the first block is number 1 and the chaining value *)
(* is the one that came with the keys.                                     *)
NewBsp(key) == [key |-> key, block_nr |-> 1, mac_chain |-> <<"initial", key>>]

Mac(b, body) == <<b.key, b.mac_chain, body>>

(* Only store metadata is authenticated without being encrypted.           *)
Encrypted(section) == section # "storeMetadata"

(* encrypt_and_mac_one and mac_only_one: the segment that leaves instance  *)
(* b, and the instance after it.                                           *)
Body(b, section, span) ==
  [section |-> section, span |-> span,
   icv |-> IF Encrypted(section) THEN <<b.key, b.block_nr>> ELSE <<>>]

Protect(b, section, span) ==
  [body |-> Body(b, section, span), mac |-> Mac(b, Body(b, section, span))]

AfterProtect(b, section, span) ==
  [key |-> b.key, block_nr |-> b.block_nr + 1,
   mac_chain |-> Mac(b, Body(b, section, span))]

SkippingSpan(section, from) ==
  [from |-> IF from > 0 THEN from + 1 ELSE from,
   upto |-> IF Size[section] - from < MaxPayload THEN Size[section]
            ELSE from + MaxPayload]

(* The piece of a section that starts at from.                             *)
NextSpan(section, from) ==
  [from |-> from,
   upto |-> IF Size[section] - from < MaxPayload THEN Size[section]
            ELSE from + MaxPayload]

(***************************************************************************)
(* Encoding.  With keys of its own (from_ppp) the profile is encrypted     *)
(* before the session begins, and the keys are sent in a section of the    *)
(* session; without (from_upp) it is the last section of the session.      *)
(***************************************************************************)
EncodeOrder(replace) ==
  IF replace THEN <<"upp", "configureISDP", "storeMetadata", "replaceSessionKeys">>
             ELSE <<"configureISDP", "storeMetadata", "upp">>

Idle == "idle"
NoEncoder == [state |-> Idle]
NoDecoder == [state |-> Idle]

NoSegments == [s \in Sections |-> <<>>]

(* seen is a history variable: the instance before each segment of a       *)
(* section, and after the last.  The code keeps no such record.            *)
StartEncode(key, replace) ==
  /\ enc' = [state |-> "busy", replace |-> replace, nr |-> 1, from |-> 0, key |-> key,
             bsp |-> NewBsp(IF replace THEN PpkKey ELSE key),
             seen |-> [s \in Sections |-> IF s = EncodeOrder(replace)[1]
                         THEN <<NewBsp(IF replace THEN PpkKey ELSE key)>> ELSE <<>>]]
  /\ bpp' = NoSegments

(* The instance that protects what follows section nr.                     *)
BspAfter(e, after) ==
  IF e.replace /\ e.nr = 1 THEN NewBsp(e.key) ELSE after

EncodeSegment ==
  /\ enc.state = "busy"
  /\ LET order == EncodeOrder(enc.replace)
         section == order[enc.nr]
         span == NextSpan(section, enc.from)
         after == AfterProtect(enc.bsp, section, span)
         seen == [enc.seen EXCEPT ![section] = Append(@, after)]
     IN /\ bpp' = [bpp EXCEPT ![section] = Append(@, Protect(enc.bsp, section, span))]
        /\ \/ /\ span.upto < Size[section]
              /\ enc' = [enc EXCEPT !.from = span.upto, !.bsp = after, !.seen = seen]
           \/ /\ span.upto = Size[section]
              /\ enc.nr < Len(order)
              /\ enc' = [enc EXCEPT !.nr = enc.nr + 1, !.from = 0, !.bsp = BspAfter(enc, after),
                           !.seen = [seen EXCEPT ![order[enc.nr + 1]] = <<BspAfter(enc, after)>>]]
           \/ /\ span.upto = Size[section]
              /\ enc.nr = Len(order)
              /\ enc' = [enc EXCEPT !.state = "done", !.bsp = after, !.seen = seen]
  /\ UNCHANGED dec

(***************************************************************************)
(* Decoding.  Sections come in the order they have on the wire.            *)
(***************************************************************************)
SectionAfter(section, replaced) ==
  CASE section = "configureISDP" -> "storeMetadata"
    [] section = "storeMetadata" -> IF replaced THEN "replaceSessionKeys" ELSE "upp"
    [] section = "replaceSessionKeys" -> "upp"

StartDecode(key) ==
  dec' = [state |-> "busy", section |-> "configureISDP", done |-> 0, bsp |-> NewBsp(key),
          got |-> [s \in Sections |-> 0], whole |-> TRUE]

(* demac_and_decrypt_one and demac_only_one: a MAC that does not match     *)
(* raises, and so does (in the padding) an ICV of another block.           *)
Verified(b, seg) == seg.mac = Mac(b, seg.body)
Readable(b, seg) == Encrypted(seg.body.section) => seg.body.icv = <<b.key, b.block_nr>>

AfterUnprotect(b, seg) ==
  [key |-> b.key, block_nr |-> b.block_nr + 1, mac_chain |-> Mac(b, seg.body)]

(* After the replaceSessionKeys section a new instance takes over.         *)
BspAfterSection(section, after) ==
  IF section = "replaceSessionKeys" THEN NewBsp(PpkKey) ELSE after

DecodeSegment ==
  /\ dec.state = "busy"
  /\ LET seg == bpp[dec.section][dec.done + 1]
         after == AfterUnprotect(dec.bsp, seg)
         last == dec.done + 1 = Len(bpp[dec.section])
         joined == [dec EXCEPT !.got[dec.section] = seg.body.span.upto,
                      !.whole = dec.whole /\ seg.body.span.from = dec.got[dec.section]]
     IN dec' = IF ~ (Verified(dec.bsp, seg) /\ Readable(dec.bsp, seg))
               THEN [dec EXCEPT !.state = "error"]
               ELSE IF ~ last
               THEN [joined EXCEPT !.done = dec.done + 1, !.bsp = after]
               ELSE IF dec.section # "upp"
               THEN [joined EXCEPT !.done = 0, !.bsp = BspAfterSection(dec.section, after),
                      !.section = SectionAfter(dec.section, bpp["replaceSessionKeys"] # <<>>)]
               ELSE [joined EXCEPT !.state = "done", !.bsp = after]
  /\ UNCHANGED <<enc, bpp>>

(***************************************************************************)
(* One package on its way from the SM-DP+ to the eUICC it was made for.    *)
(***************************************************************************)
BspInit == enc = NoEncoder /\ bpp = NoSegments /\ dec = NoDecoder

BspNext ==
  \/ enc.state = Idle /\ UNCHANGED dec
     /\ \E key \in Keys, replace \in BOOLEAN : StartEncode(key, replace)
  \/ EncodeSegment
  \/ enc.state = "done" /\ dec.state = Idle /\ StartDecode(enc.key) /\ UNCHANGED <<enc, bpp>>
  \/ DecodeSegment

BspSpec == BspInit /\ [][BspNext]_bspVars

(* The eUICC that holds the keys of the session gets through every         *)
(* package: no MAC and no block number disagrees, whatever the sizes, with *)
(* and without keys of its own for the profile (BspInstance on both        *)
(* sides).                                                                 *)
DecodeNeverFails == dec.state # "error"

(* What it has then is the whole of each section, in order and nothing     *)
(* twice (encrypt_and_mac cuts it, demac_and_decrypt joins it).            *)
DecodedIsWhole ==
  dec.state = "done" =>
    /\ dec.whole
    /\ \A s \in Sections :
         bpp[s] # <<>> => dec.got[s] = Size[s]
=============================================================================
