-------------------------- MODULE MCChannelManager --------------------------
(* The chains the runs of ChannelManager use: both orders of two channels,   *)
(* one of them with a channel that does not exist in between.                *)
EXTENDS ChannelManager

AllChains  == { <<0, 1>>, <<1, 7, 0>> }
FixedChain == { <<0, 1>> }
=============================================================================
