--------------------------- MODULE PileUpCharges ---------------------------
(***************************************************************************)
(* The charges of piled-up hits from their integrated charges              *)
(* (TFragmentMap::Solve, libraries/TDataParser/TFragmentMap.cxx).  Each    *)
(* integral is of one hit or of the sum of several; there are more of them *)
(* than hits, and Solve weighs each with the square of its integration     *)
(* length.  The results are fractions: numerators over a common            *)
(* denominator; the code's floats and the random fraction it adds to an    *)
(* integral are left out, and so are the multiplications by the length     *)
(* that GetCharge divides by again.  Indices start at 0 as in the code.    *)
(***************************************************************************)
EXTENDS Integers

CONSTANTS
    SolvedSituations,
    IntegralValues,     \* charges that were integrated
    IntegrationLengths

Situations == {"pair", "bothWithFirst", "thirdWithSecond"}

Hits(situation) == IF situation = "pair" THEN 0 .. 1 ELSE 0 .. 2

ASSUME SolveAssumption ==
    /\ SolvedSituations \subseteq Situations
    /\ IntegralValues \subseteq Int
    /\ IntegrationLengths \subseteq Nat \ {0}

Integrals(situation) == IF situation = "pair" THEN 0 .. 2 ELSE 0 .. 4

\* Which hits an integral is the sum of (the digitizer's windows).
Window(situation, i) ==
    CASE i = 0 -> {0}
      [] i = 1 -> {0, 1}
      [] i = 2 -> IF situation = "bothWithFirst" THEN {0, 1, 2} ELSE {1}
      [] i = 3 -> {1, 2}
      [] i = 4 -> {2}
-----------------------------------------------------------------------------
(* Solve.  c are the charges, q the squared integration lengths.           *)

\* Faulty: the first charge is added where it is subtracted.
PairPlus(c, q) ==
    [denominator |-> q[0]*q[1] + q[0]*q[2] + q[1]*q[2],
     charge |-> [h \in 0 .. 1 |->
        IF h = 0
        THEN c[0]*(q[0]*q[1] + q[0]*q[2]) + (c[1] - c[2])*q[1]*q[2]
        ELSE c[2]*(q[0]*q[2] + q[1]*q[2]) + (c[1] + c[0])*q[0]*q[1]]]

Pair(c, q) ==
    [denominator |-> q[0]*q[1] + q[0]*q[2] + q[1]*q[2],
     charge |-> [h \in 0 .. 1 |->
        IF h = 0
        THEN c[0]*(q[0]*q[1] + q[0]*q[2]) + (c[1] - c[2])*q[1]*q[2]
        ELSE c[2]*(q[0]*q[2] + q[1]*q[2]) + (c[1] - c[0])*q[0]*q[1]]]

\* Both later hits pile up with the first.
BothWithFirst(c, q) ==
    LET p(i, j, k) == q[i]*q[j]*q[k] IN
    [denominator |-> p(0,1,2) + p(0,1,3) + p(0,1,4) + p(0,2,4) + p(0,3,4)
                       + p(1,2,3) + p(1,3,4) + p(2,3,4),
     charge |-> [h \in 0 .. 2 |->
        CASE h = 0 -> c[0]*(p(0,1,2) + p(0,1,3) + p(0,1,4) + p(0,2,4) + p(0,3,4))
                        + (c[1] + c[4])*p(1,3,4) + c[2]*(p(1,2,3) + p(2,3,4))
                        - c[3]*(p(1,2,3) + p(1,3,4) + p(2,3,4))
          [] h = 1 -> c[0]*(p(0,1,2) + p(0,1,3) + p(0,1,4) + p(0,2,4))
                        - c[1]*(p(0,1,2) + p(0,1,3) + p(0,1,4) + p(1,2,3))
                        + c[2]*(p(1,2,3) - p(0,2,4))
                        - c[3]*(p(0,3,4) + p(1,2,3) + p(1,3,4) + p(2,3,4))
                        + c[4]*(p(0,2,4) + p(0,3,4) + p(1,3,4) + p(2,3,4))
          [] h = 2 -> (c[0] + c[3])*p(0,1,3)
                        + c[1]*(p(0,1,2) + p(0,1,3) + p(1,2,3))
                        + c[2]*(p(0,1,2) + p(1,2,3))
                        + c[4]*(p(0,1,4) + p(0,2,4) + p(0,3,4) + p(1,3,4)
                                  + p(2,3,4))]]

\* The third hit piles up with the second only.
ThirdWithSecond(c, q) ==
    LET p(i, j, k) == q[i]*q[j]*q[k] IN
    [denominator |-> p(0,1,3) + p(0,1,4) + p(0,2,3) + p(0,2,4) + p(0,3,4)
                       + p(1,2,3) + p(1,2,4) + p(1,3,4),
     charge |-> [h \in 0 .. 2 |->
        CASE h = 0 -> c[0]*(p(0,1,3) + p(0,1,4) + p(0,2,3) + p(0,2,4) + p(0,3,4))
                        + c[1]*(p(1,2,3) + p(1,2,4) + p(1,3,4))
                        - c[2]*(p(1,2,3) + p(1,2,4))
                        - (c[3] - c[4])*p(1,3,4)
          [] h = 1 -> (c[1] - c[0])*(p(0,1,3) + p(0,1,4))
                        + c[2]*(p(0,2,3) + p(0,2,4) + p(1,2,3) + p(1,2,4))
                        + (c[3] - c[4])*(p(0,3,4) + p(1,3,4))
          [] h = 2 -> (c[0] - c[1])*p(0,1,3) - c[2]*(p(0,2,3) + p(1,2,3))
                        + c[3]*(p(0,1,3) + p(0,2,3) + p(1,2,3))
                        + c[4]*(p(0,1,4) + p(0,2,4) + p(0,3,4) + p(1,2,4)
                                  + p(1,3,4))]]

Solve(situation, c, q) ==
    CASE situation = "pair" -> Pair(c, q)
      [] situation = "bothWithFirst" -> BothWithFirst(c, q)
      [] situation = "thirdWithSecond" -> ThirdWithSecond(c, q)
-----------------------------------------------------------------------------
(* A call of Solve with lengths kValues                                    *)

VARIABLES situation, charges, kValues, solution

solveVars == <<situation, charges, kValues, solution>>

SolveInit ==
    /\ situation \in SolvedSituations
    /\ charges \in [Integrals(situation) -> IntegralValues]
    /\ kValues \in [Integrals(situation) -> IntegrationLengths]
    /\ solution = <<>>

SolveNext ==
    /\ solution = <<>>
    /\ solution' = Solve(situation, charges,
                         [i \in DOMAIN kValues |-> kValues[i] * kValues[i]])
    /\ UNCHANGED <<situation, charges, kValues>>

SolveSpec == SolveInit /\ [][SolveNext]_solveVars
-----------------------------------------------------------------------------
(* What must hold                                                          *)

\* The sum of f over those of the numbers 0 .. 4 that S has.
SumOver(S, f) ==
    LET term(i) == IF i \in S THEN f[i] ELSE 0
    IN  term(0) + term(1) + term(2) + term(3) + term(4)

\* What an integral is more than the sum of its hits' charges, weighted.
Excess(i) ==
    kValues[i] * kValues[i] *
        (charges[i] * solution.denominator
           - SumOver(Window(situation, i), solution.charge))

\* Solve finds the charges for which the weighted squares of the
\* differences to the integrals add up to a minimum: the derivative by the
\* charge of each hit is zero (TFragmentMap.cxx:344).
SolveMinimises ==
    solution # <<>> =>
        /\ solution.denominator > 0
        /\ \A h \in Hits(situation) :
               SumOver({i \in Integrals(situation) : h \in Window(situation, i)},
                       [i \in Integrals(situation) |-> Excess(i)]) = 0
=============================================================================
