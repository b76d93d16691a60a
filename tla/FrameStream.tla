---------------------------- MODULE FrameStream ----------------------------
(***************************************************************************)
(* What a stream link promises its user: packets arrive whole, once and in *)
(* the order they were sent; under pressure real-time packets may go       *)
(* missing on the way, control packets never; the link may break.          *)
(***************************************************************************)
EXTENDS Sequences, SequencesExt

CONSTANT Name

VARIABLES transit, arrived

streamVars == <<transit, arrived>>

StreamInit == transit = <<>> /\ arrived = <<>>

WithoutSome(s, t) ==
  \E gone \in SUBSET {p \in ToSet(s) : p.realtime} : t = SelectSeq(s, LAMBDA p : p \notin gone)

Send ==
  /\ \E p \in [name : Name, realtime : BOOLEAN] :
       /\ p \notin ToSet(transit) \cup ToSet(arrived)
       /\ WithoutSome(Append(transit, p), transit')
  /\ UNCHANGED arrived

Shed == WithoutSome(transit, transit') /\ UNCHANGED arrived

Arrive ==
  /\ transit # <<>>
  /\ arrived' = Append(arrived, Head(transit)) /\ transit' = Tail(transit)

Break == transit' = <<>> /\ UNCHANGED arrived

StreamNext == streamVars' # streamVars /\ (Arrive \/ Send \/ Shed \/ Break)

StreamSpec == StreamInit /\ [][StreamNext]_streamVars
=============================================================================
