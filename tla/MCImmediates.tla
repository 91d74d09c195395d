---------------------------- MODULE MCImmediates ----------------------------
(* Instances of Immediates for TLC.                                        *)
EXTENDS Immediates

(* The word of a natural number below 2^16.                                *)
Word(n) == {b \in 0 .. 15 : (n \div 2^b) % 2 = 1}

Bytes == {Word(4 * n) : n \in 0 .. 130}

(* Runs of bits, with and without their ends, and their complements.       *)
Runs == UNION { {lo .. hi, {lo, hi}} : <<lo, hi>> \in
                {p \in Bits \X Bits : p[1] <= p[2] /\ p[2] <= p[1] + 16} }
Split == {{lo, hi} : lo \in 0 .. 7, hi \in 24 .. 31}

Constants == {{}} \cup Runs \cup Split \cup {Not(w) : w \in Runs \cup Split}
=============================================================================
