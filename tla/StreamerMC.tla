----------------------------- MODULE StreamerMC -----------------------------
(* A small instance of Streamer for TLC: two tags of different lengths that *)
(* start alike, and tokens that hold parts of them.                        *)
EXTENDS Streamer

MCTags == <<[opening |-> <<"<", "t">>,      closing |-> <<">", "t">>],
            [opening |-> <<"<", "o", "o">>, closing |-> <<">", "o">>]>>

MCToken == {<<"<">>, <<"t">>, <<"o">>, <<">">>, <<"<", "t", ">">>, <<">", "t", "o">>,
            <<" ">>, <<" ", "<">>, <<"\n">>, <<"L">>, <<"T">>}

MCExternals == {<<"o">>}
=============================================================================
