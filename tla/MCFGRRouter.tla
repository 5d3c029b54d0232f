----------------------------- MODULE MCFGRRouter -----------------------------
(* A grid of 3 x 2 tiles with room for one net on each edge. *)
EXTENDS FGRRouter

MCNets == 1..3
(* Net 1 has three pins and so two subnets, which tree rebuilding can exchange;
   nets 2 and 3 have one each.  Nets 1 and 2 can take the edges between their
   pins, and then the box of net 3 has no legal route left: only a detour is. *)
MCPins == <<{<<1, 0>>, <<1, 1>>, <<2, 1>>},
            {<<0, 0>>, <<0, 1>>},
            {<<0, 1>>, <<1, 0>>}>>
==============================================================================
