--------------------------- MODULE MCMemContents ---------------------------
(* MemContents for dumps of one to three regions: several pages and one,   *)
(* valid and not, larger than the memory behind them, in either order; and *)
(* of four, two of which overlap.                                          *)
EXTENDS MemContents

R(start, end, nents, data) ==
    [start |-> start, end |-> end, nents |-> nents, valid |-> data # << >>, data |-> data]

two     == R(1, 3, 2, <<"x", "y">>)
part    == R(3, 6, 1, <<"z">>)
single  == R(6, 7, 1, <<"x">>)
unused  == R(3, 5, 2, << >>)
large   == R(3, 6, 3, << >>)
tail    == R(4, 6, 2, << >>)

MCDumps == {<<two, part, single>>, <<two, unused, single>>, <<unused, two, single>>,
            <<unused, single, two>>, <<two, single, unused>>, <<two>>,
            <<large, two, tail, single>>}
MCVpns == 1..6
MCContent == {"x", "y", "z"}

ASSUME OverlapsAreBacked == \A d \in MCDumps : OverlapsBacked(d)

=============================================================================
