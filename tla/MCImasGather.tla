---------------------------- MODULE MCImasGather ----------------------------
(* The ECE temperature (an entity axis whose own times are two-dimensional),  *)
(* fetched alone, split by channel, or with a time leaf as a prefix.          *)
EXTENDS ImasGather

CONSTANTS value, time, name, label_text, \* requirements
          data, profile_time, flag, sibling_time, ids_time, channel_name, label

MCRounds ==
    [p \in Path |->
       CASE p = data         -> <<{name}, {value}>>
         [] p = profile_time -> <<{name, value}>>
         [] p = flag         -> <<{value}>>
         [] p = sibling_time -> <<{time}, {label_text}>>
         [] p = ids_time     -> <<{value}, {time}>>
         [] p = channel_name -> <<{name}, {label_text}>>
         [] OTHER            -> <<{label_text}>>]

SiblingFirst == <<sibling_time, ids_time>>
LabelThenName ==
    [t \in Leaves |-> IF t = data THEN <<label, channel_name>> ELSE <<label>>]
TimesFit == {<<sibling_time, data>>, <<ids_time, data>>, <<profile_time, data>>}
NamesFit == {<<label, data>>, <<channel_name, data>>}
TimeLeaf == <<profile_time>>
OddValues == {<<"dims", sibling_time>>, <<"names", channel_name>>, <<"hint", label>>}
=============================================================================
