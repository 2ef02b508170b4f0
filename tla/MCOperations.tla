---------------------------- MODULE MCOperations ----------------------------
(***************************************************************************)
(* The operations of the runtime, each a pure function of its arguments,   *)
(* on small inputs: a step calls one operation with one choice of          *)
(* arguments, records the call with its result, and returns.  The          *)
(* invariants compare each result with a definition of what it should be.  *)
(*                                                                         *)
(* area is the module whose operations a behaviour calls; the instances    *)
(* below choose the inputs, so that limits, ties, zeros, signs, refusals   *)
(* and the values just beyond a limit all occur.  Integers such as 99991   *)
(* stand for inputs beyond every limit or of the wrong type.               *)
(***************************************************************************)
EXTENDS Integers, Sequences

VARIABLES area, call

Literals == {-129, -128, -9, -8, -1, 0, 1, 2, 3, 7, 8, 15, 16, 127, 165, 255, 256, 99991}
FW == INSTANCE FixedWidth WITH
        BitWidths <- {4, 8}, OtherWidth <- 6, ByteWidth <- 2, MaxCount <- 10,
        Counts <- {0, 1, 3, 4, 7, 8, 9, 11, 99991},
        Alignments <- {0, 1, 2, 3, 8, 16, 256, 512, 99991}
EN == INSTANCE ExactNumbers WITH
        Decimals <- {-995, -350, -250, -249, -5, -1, 0, 1, 5, 15, 149, 150, 151, 250, 350, 995,
                     3000, 99991, 99992},
        Increments <- {-5, 0, 5, 25, 99991},
        Integers_ <- {-12, -7, -2, -1, 0, 1, 2, 3, 5, 6, 7, 12, 61, 99991},
        MaxDecimal <- 2000, MaxInteger <- 60, MaxCount <- 7, Precision <- 2,
        Narrow <- [exponent |-> 2, fraction |-> 2], Wide <- [exponent |-> 3, fraction |-> 4],
        UnitExponent <- 8, Magnitudes <- 0..1200

Atoms == {<<"x">>, <<"int", 0>>, <<"int", 2>>}
Combined(S, T) == {<<op, a, b>> : op \in {"add", "sub", "mul", "div"}, a \in S, b \in T}
Level1 == Atoms \cup Combined(Atoms, Atoms) \cup {<<"pow", <<"x">>, n>> : n \in {-1, 0, 3}}
          \cup {<<"neg", <<"x">>>>, <<"float">>, <<"call">>, <<"name">>}
Trees == Level1 \cup Combined({<<"add", <<"x">>, <<"int", 2>>>>}, Level1)
         \cup {<<"pow", <<"add", <<"x">>, <<"int", 2>>>>, n>> : n \in 2..4}
         \cup {<<"mul", <<"pow", <<"int", 2>>, 3>>, <<"x">>>>}
CE == INSTANCE Certificates WITH
        Expressions <- Trees, MaxTerms <- 3, MaxDegree <- 3, MaxCoefficient <- 7, MaxNodes <- 10,
        MaxParsed <- 6,
        Statements <- {<<<<"mul", <<"x">>, <<"int", 2>>>>, <<"add", <<"x">>, <<"x">>>>>>, <<<<"x">>, <<"int", 2>>>>}
VE == INSTANCE Verification WITH
        Probes <- {0, 1}, Others <- {2}, Values <- {0, 1}, Candidates <- {0, 1, 2}, MaxItems <- 2

DName(s) == <<"name", s>>
DAtoms == {DName("d"), DName("t"), DName("u"), <<"num">>}
DTrees == DAtoms \cup {<<op, a, b>> : op \in {"mul", "div", "add"}, a, b \in DAtoms}
          \cup {<<"pow", a, n>> : a \in {DName("d"), DName("u")}, n \in {-1, 2, 5}}
          \cup {<<"sqrt", <<"pow", DName("u"), 2>>>>, <<"sin", DName("t")>>, <<"sin", DName("u")>>,
                <<"add", <<"mul", DName("d"), DName("u")>>, <<"sin", DName("t")>>>>, DName("w"),
                <<"mul", DName("u"), <<"mul", DName("u"), <<"mul", DName("u"), DName("u")>>>>>>}
DI == INSTANCE Dimensions WITH
        Bases <- {"length", "time"}, Known <- {"d", "t"}, Unknowns <- {"u"}, Trees <- DTrees,
        Declared <- [s \in {"d", "t"} |->
                       [b \in {"length", "time"} |-> IF (s = "d") = (b = "length") THEN 4 ELSE 0]],
        Grid <- {-4, -2, 0, 2, 4, 8}, MaxPower <- 4, MaxConstraints <- 4, MaxNodes <- 6,
        Measures <- {[length |-> x[1], time |-> x[2]] : x \in {<<0, 0>>, <<1, 0>>, <<0, 1>>, <<1, -1>>, <<0, -2>>, <<2, 1>>}}, MaxVariables <- 3

EPart(kind, parts) == [kind |-> kind, size |-> IF kind = "text" THEN 2 ELSE 0, parts |-> parts]
ELists(places) == {<<>>} \cup {<<p>> : p \in places} \cup (places \X places)
EContainers == {EPart(kind, parts) : kind \in {"object", "array"}, parts \in ELists(1..3)}
EDocuments == {<<root, inner, leaf>> : root \in EContainers, inner \in EContainers \cup {EPart("text", <<>>)},
                                       leaf \in {EPart(kind, <<>>) : kind \in {"text", "number", "not finite", "bad key", "not JSON"}} \cup {EPart("array", <<2>>)}}
EV == INSTANCE Envelopes WITH
        Lengths <- {1, 3}, OutputLimits <- {4, 6}, MessageLimits <- <<6, 3, 1, 0>>, MaxLine <- 3,
        MaxStream <- 9, MaxTicks <- 5, MaxNodes <- 6, MaxDepth <- 2, MaxText <- 3, Requests <- EDocuments

CA == INSTANCE Catalog WITH Latin <- {"l1", "l2"}, Cjk <- {"z1", "z2"}, MaxVariants <- 2

FI == INSTANCE Finance WITH
        Amounts <- {-4, 0, 5, 9, 99991}, Rates <- {-32, -16, -4, 0, 8, 16, 99992}, Brackets <- {-16, 0, 8, 16, 99991},
        Grid <- 16, MaxPeriods <- 3, MaxIterations <- 3, MaxCoefficient <- 99,
        Day <- 12, Release <- 8, MinimumRateCount <- 2

QUnits == [m |-> [dim |-> "length", factor |-> <<1, 1>>, trueFactor |-> <<1, 1>>, calendar |-> FALSE],
           km |-> [dim |-> "length", factor |-> <<3, 1>>, trueFactor |-> <<3, 1>>, calendar |-> FALSE],
           rad |-> [dim |-> "angle", factor |-> <<1, 1>>, trueFactor |-> <<1, 1>>, calendar |-> FALSE],
           deg |-> [dim |-> "angle", factor |-> <<1, 5>>, trueFactor |-> <<1, 7>>, calendar |-> FALSE],
           month |-> [dim |-> "time", factor |-> <<4, 1>>, trueFactor |-> <<4, 1>>, calendar |-> TRUE],
           day |-> [dim |-> "time", factor |-> <<1, 1>>, trueFactor |-> <<1, 1>>, calendar |-> FALSE]]
QUnit(u) == <<"unit", u>>
QProducts == {<<"mul", <<"num", n>>, QUnit(u)>> : n \in {0, 2}, u \in DOMAIN QUnits}
QTrees == QProducts \cup {<<op, a, b>> : op \in {"add", "sub", "mul", "div"}, a, b \in QProducts}
          \cup {<<"pow", QUnit(u), <<"num", n>>>> : u \in {"km", "deg"}, n \in {1, 2, 4}}
          \cup {<<"pow", QUnit("km"), QUnit("m")>>, <<"call">>, <<"neg", QUnit("deg")>>, QUnit("unknown"), <<"mod", QUnit("m"), QUnit("m")>>}
          \cup {<<"sub", <<"div", <<"pow", QUnit("km"), <<"num", 2>>>>, QUnit("m")>>, QUnit("m")>>,
                <<"add", <<"mul", QUnit("rad"), QUnit("m")>>, <<"mul", QUnit("deg"), QUnit("m")>>>>,
                <<"add", QUnit("m"), <<"add", QUnit("m"), <<"add", QUnit("m"), <<"add", QUnit("m"), QUnit("km")>>>>>>>>}
QU == INSTANCE Quantities WITH
        Units <- QUnits, Expressions <- QTrees, MaxNodes <- 8, MaxExponent <- 3,
        Samples <- {-1, 0, 2, 5, 99991, 99992}, MaxSamples <- 4

EAtoms == {<<"int", 0>>, <<"int", 2>>, <<"float", 1>>, <<"name", "a">>, <<"name", "b">>, <<"name", "inf">>}
EPairs == {<<op, a, b>> : op \in {"add", "sub", "mul", "div", "mod"}, a, b \in EAtoms \ {<<"name", "b">>}}
          \cup {<<"pow", a, <<"int", n>>>> : a \in EAtoms, n \in {-1, 2, 5}}
ETrees == EAtoms \cup EPairs \cup {<<"div", a, b>> : a \in {<<"int", 2>>, <<"name", "a">>}, b \in EPairs}
          \cup {<<"mul", <<"int", 0>>, b>> : b \in EPairs} \cup {<<"neg", b>> : b \in EAtoms}
          \cup {<<"call", f, s>> : f \in {"max", "factorial", "sqrt", "f"}, s \in {<<>>, <<<<"name", "a">>>>, <<<<"int", 2>>, <<"float", 1>>>>, <<<<"name", "inf">>>>, <<<<"int", 9>>>>, <<<<"int", 2>>, <<"int", 0>>, <<"int", 2>>>>}}
          \cup {<<"unparsed">>, <<"string">>, <<"shift", <<"int", 2>>, <<"int", 2>>>>,
                <<"add", <<"add", <<"add", <<"int", 2>>, <<"int", 2>>>>, <<"int", 2>>>>, <<"add", <<"int", 2>>, <<"int", 2>>>>>>}
EX == INSTANCE Expressions WITH Sources <- ETrees, MaxNodes <- 7, MaxExponent <- 4, MaxFactorial <- 5, MaxArguments <- 2

OX == <<"x">>
OTrees == {OX, <<"zeta">>, <<"abs", OX>>, <<"pow", OX, 2>>, <<"pow", OX, -1>>, <<"pow", OX, 5>>, <<"mul", OX, <<"add", OX, <<"int", -1>>>>>>,
           <<"max", OX, <<"mul", <<"int", -1>>, OX>>>>, <<"min", OX, <<"int", 1>>>>, <<"floor", <<"mul", OX, <<"pow", <<"int", 2>>, -1>>>>>>,
           <<"abs", <<"add", <<"pow", OX, 3>>, <<"int", -2>>>>>>, <<"pow", <<"abs", OX>>, -2>>, <<"add", OX, <<"zeta">>>>}
OP == INSTANCE Optimization WITH
        Trees <- OTrees, Points <- -2..3, MaxPower <- 4, Width <- 4, Heights <- 0..2, Budgets <- {7, 9, 12, 16, 22, 40}, MaxReported <- 3

CMono(a, b, c, k) == [e \in {<<a, b, c>>} |-> k]
CX == INSTANCE Calculus WITH
        Width <- 6, Heights <- {-2, 0, 1, 77}, MaxIterations <- 5, Picks <- {0, 1, 3}, Directions <- {-1, 0, 2, 99991},
        Scalars <- {CMono(0, 0, 0, 3), CMono(2, 1, 0, 1), CMono(0, 1, 1, -2), CMono(1, 0, 2, 1)}

NU == INSTANCE Numerics WITH
        Bounds <- {<<0, 12>>, <<0, 5, 12>>, <<0, 7, 1, 12>>, <<0, 3, 3, 12>>, <<0, 13, 12>>}, Scales <- {0, 2, 5, 20}, Budgets <- {5, 6, 13, 20, 27, 40},
        Errors <- {0, 4, 9}, ProbeCap <- 5, RulePoints <- 3, MaxTurns <- 6, Entries <- {-1, 0, 1, 3}, Solved <- -3..3,
        MatrixEntries <- {-1, 0, 1, 2, 3333}, Shapes <- {<<1, 1>>, <<1, 2>>, <<2, 1>>, <<2, 2>>}, MaxSide <- 3,
        Spectra <- {<<4, 2, 1>>, <<4, 2>>, <<4, 0>>, <<4>>, <<0>>, <<2, 2, 0>>}, Scale <- 4

GInt(n) == <<"int", n>>
GX == <<"x", 1>>
GSum == <<"add", GX, <<"x", 2>>>>
GTrees == {GInt(0), GInt(2), GX, <<"x", 3>>, GSum, <<"mul", GSum, GSum>>, <<"pow", GSum, 2>>, <<"pow", GSum, 3>>, <<"pow", GX, 4>>,
           <<"pow", GX, -1>>, <<"sub", GSum, <<"x", 2>>>>, <<"div", GSum, GInt(-1)>>, <<"div", GX, GInt(0)>>, <<"div", GX, GSum>>,
           <<"float">>, <<"call">>, <<"compare", GX, GX>>, <<"unparsed">>, <<"neg", GSum>>, <<"mul", <<"pow", GSum, 2>>, <<"pow", GX, 2>>>>,
           <<"add", GSum, <<"add", GSum, GSum>>>>, <<"mul", <<"add", <<"pow", GX, 2>>, GInt(1)>>, <<"sub", <<"x", 2>>, GInt(1)>>>>}
GE == INSTANCE Geometry WITH
        Coordinates <- {2, 3, 4}, Probes <- GTrees, MaxNodes <- 11, MaxDegree <- 3, MaxTerms <- 4, MaxDerived <- 6, MaxCoefficient <- 8,
        Entries <- {GInt(-1), GInt(1), GX, <<"neg", GX>>, <<"neg", <<"add", <<"pow", GX, 2>>, GInt(1)>>>>, <<"mul", GX, <<"x", 2>>>>, <<"pow", <<"x", 2>>, 3>>, <<"float">>}

ST == INSTANCE Statistics WITH
        Grid <- 4, MaxTrials <- 4, Points <- {-2, 0, 1, 2, 4, 5, 99991, 99992}, Steps <- 3, Observations <- {0, 1, 2, 99991}, MaxSample <- 3,
        Counts <- {-1, 0, 1, 5}

PQ(n) == <<n, 1>>
PText(s) == [kind |-> "polynomial", terms |-> [i \in 0..5 |-> IF i < Len(s) THEN s[i + 1] ELSE PQ(0)]]
POpaque(kind) == [kind |-> kind, terms |-> [i \in 0..5 |-> PQ(0)]]
PSources == {POpaque("blank"), POpaque("foreign"), PText(<<PQ(0), PQ(0), PQ(1)>>), PText(<<PQ(1), PQ(2), PQ(1)>>), PText(<<PQ(9), PQ(-6), PQ(1)>>),
             PText(<<PQ(8), PQ(6), PQ(1)>>), PText(<<PQ(0), <<-1, 2>>, <<1, 2>>>>), PText(<<PQ(0), PQ(0), PQ(0), PQ(1)>>)}
PSaved(extra) == <<PText(<<PQ(0), <<1, 6>>, <<-1, 2>>, <<1, 3>>>>).terms, PText(<<PQ(0), PQ(-1 - extra), PQ(1)>>).terms, PText(<<PQ(0), PQ(1 + extra)>>).terms>>
PPack(id, saved) == [executableKey |-> FALSE, id |-> id, promoted |-> FALSE, status |-> "verified", kernelClaimed |-> FALSE, checker |-> "current",
                     rules |-> IF id = "gosper" THEN "gosper_rules" ELSE "param_rules", saved |-> saved, version |-> "current",
                     extractionTaskId |-> IF id = "gosper" THEN "T1" ELSE "P0"]
PGood == {PPack("gosper", <<>>), PPack("shifted_square", PSaved(0)), PPack("shifted_square", PSaved(1)), PPack("shifted_square", <<>>)}
MP == INSTANCE MethodPacks WITH
        MaxDegree <- 3, MaxBound <- 10, MaxValue <- 5000, Sources <- PSources, Bounds <- {0, 1, 4, 10, 11}, TaskIds <- {"", "T1", "P0"},
        Parameters <- {[kind |-> "float", value |-> PQ(0)], [kind |-> "zero_denominator", value |-> PQ(0)], [kind |-> "rational", value |-> PQ(1)],
                       [kind |-> "rational", value |-> <<-3, 2>>]},
        Packs <- PGood \cup {[p EXCEPT !.status = "candidate"] : p \in PGood} \cup {[PPack("gosper", <<>>) EXCEPT !.version = "stale"],
                 [PPack("gosper", <<>>) EXCEPT !.rules = "other"], [PPack("shifted_square", PSaved(0)) EXCEPT !.version = "stale"],
                 [PPack("gosper", <<>>) EXCEPT !.checker = "old"], [PPack("gosper", <<>>) EXCEPT !.status = "cross"]}

CSource(form, s) == [kind |-> "polynomial", form |-> <<"written", form>>, in |-> "k", terms |-> [i \in 0..4 |-> IF i < Len(s) THEN s[i + 1] ELSE PQ(0)]]
SC == INSTANCE SumCoverage WITH
        MaxDegree <- 2, MaxBound <- 10, MaxValue <- 5000, Spans <- {<<1, 3>>, <<3, 1>>}, Wrong <- <<7, 2>>,
        Summands <- {CSource("k", <<PQ(0), PQ(1)>>), CSource("k/2", <<PQ(0), <<1, 2>>>>), [CSource("1/k", <<>>) EXCEPT !.kind = "foreign"]}

EL == INSTANCE Evaluations

-----------------------------------------------------------------------------
Areas == {"fixed_width", "exact_numbers", "floating", "certificates",
          "verification", "dimensions", "envelopes", "catalog", "finance",
          "quantities", "expressions", "matrices", "optimization",
          "calculus", "numerics", "geometry", "statistics", "method_packs",
          "sum_coverage", "evaluations"}

Idle == [op |-> "idle"]

Init == area \in Areas /\ call = Idle

Return == call.op # "idle" /\ call' = Idle

Call ==
    /\ call = Idle
    /\ \/ area = "fixed_width" /\ FW!Next
       \/ area = "exact_numbers" /\ EN!Next
       \/ area = "floating" /\ EN!NextFloat
       \/ area = "certificates" /\ CE!Next
       \/ area = "verification" /\ VE!Next
       \/ area = "dimensions" /\ DI!Next
       \/ area = "envelopes" /\ EV!Next
       \/ area = "catalog" /\ CA!Next
       \/ area = "finance" /\ FI!Next
       \/ area = "quantities" /\ QU!Next
       \/ area = "expressions" /\ EX!Next
       \/ area = "matrices" /\ NU!NextMatrix
       \/ area = "optimization" /\ OP!Next
       \/ area = "calculus" /\ CX!Next
       \/ area = "numerics" /\ NU!Next
       \/ area = "geometry" /\ GE!Next
       \/ area = "statistics" /\ ST!Next
       \/ area = "method_packs" /\ MP!NextPack
       \/ area = "sum_coverage" /\ SC!NextCoverage
       \/ area = "evaluations" /\ EL!NextEvaluation

Next == (Call \/ Return) /\ UNCHANGED area

Spec == Init /\ [][Next]_<<area, call>>

-----------------------------------------------------------------------------
(* Properties: those of the modules, by what they are about.               *)

\* The bits, counts, quotients, roundings and distances that are reported are
\* those of the mathematical definition, and an input that has none is refused;
\* a decimal becomes the nearest floating value, except for a narrow one whose
\* wide value is a tie (operations/programmer.py, rounding.py, number_theory.py,
\* combinatorics.py, floating.py; NearestRepresentable below is without the
\* exception).
MachineNumbersFaithful ==
    /\ area = "fixed_width" => FW!BitwiseFaithful /\ FW!ArithmeticFaithful
    /\ area = "exact_numbers" => EN!QuantizeNearest /\ EN!IntegersExact
    /\ area = "floating" => EN!FloatsOrdered

\* What is called proved is true: an accepted certificate, a Lean artifact and
\* a verification verdict, whatever was tampered with or left undecided
\* (certificate.py, certificate_checker.py, lean_bridge.py, verification.py).
ProofsSound ==
    /\ area = "certificates" => CE!CertificatesSound /\ CE!LeanSound
    /\ area = "verification" => VE!VerificationSound

\* Inferred dimensions pass the check that uses them, a check that passes is
\* that of a homogeneous equation, the pi groups reported span, and a
\* quantity called exact is the true one
\* (operations/dimension.py, quantity.py, units.py).
DimensionsAgree ==
    /\ area = "dimensions" => /\ DI!InferenceAgreesWithCheck /\ DI!CheckIsHomogeneity
                              /\ DI!PiGroupsSpan
    /\ area = "quantities" => QU!ExactQuantityIsTrue

\* Between an operation and its client nothing changes meaning: envelopes that
\* are shortened, lines that are skipped, timers that nest, names that nearly
\* match, contracts that are selected (output_policy.py, app_runtime.py,
\* runtime.py, catalog.py).
SurfaceKeepsMeaning ==
    /\ area = "envelopes" => /\ EV!EnvelopesKeepMeaning /\ EV!LinesStayAligned /\ EV!RequestsJudgedWhole
                             /\ EV!OuterTimerKept
    /\ area = "catalog" => CA!NoNearMatch /\ CA!SelectionNeverWeakens

\* Answers of the symbolic operations are defined where the question is, lose
\* and invent no solution, and agree with each other; the shape limits of the
\* integrability check cover what it expands (safe_expression.py, algebra.py,
\* linear_algebra.py, calculus.py, geometry.py).
AnswersHonest ==
    /\ area = "expressions" => EX!AnswersDefined /\ EX!SolutionsHonest
    /\ area = "matrices" => NU!SystemsClassified /\ NU!AlgebraHolds
    /\ area = "calculus" => CX!FieldsConsistent
    /\ area = "geometry" => GE!ShapeCoversExpansion /\ GE!NijenhuisFaithful

\* Numbers hold what they promise: bounds, enclosures and brackets, also when a
\* budget runs out; distributions, quantiles, tests, intervals, summaries and
\* payments agree with their definitions and with each other, and cached rates with
\* what was fetched (optimization.py, calculus.py, numerical.py, probability.py,
\* inference.py, finance.py, currency.py, data.py).
NumbersHold ==
    /\ area = "optimization" => OP!EnclosuresHold /\ OP!ExtremumEnclosed
    /\ area = "calculus" => CX!RootEnclosed /\ CX!RootsAllReported
    /\ area = "numerics" => /\ NU!ProbesCover /\ NU!RefinementWithinBudget
                            /\ NU!ForwardErrorWithinTwice
    /\ area = "statistics" => /\ ST!DistributionsConsistent /\ ST!QuantileBrackets
                              /\ ST!TestMatchesInterval /\ ST!EstimatesExact
    /\ area = "finance" => FI!FinanceExact /\ FI!CacheNeverExtends
    /\ area = "quantities" => QU!SampleInOrder

\* A sum that a method pack or the coverage record establishes is true, evidence
\* counts once, an undisturbed record establishes its sum, and the reports of the
\* experiments say what their arms did (research/).
PacksHonest ==
    /\ area = "method_packs" => MP!AppliedSumIsTrue /\ MP!EvidenceIsNew /\ MP!OutputsAreWhole
    /\ area = "sum_coverage" => /\ SC!EstablishedSumIsTrue /\ SC!UndisturbedIsEstablished
                               /\ SC!MutationsDetected /\ SC!SidecarsAreWhole
    /\ area = "evaluations" => EL!TrustReportHonest /\ EL!ShadowReportFaithful

\* Whenever a search is certified its intervals hold every minimizer, as the
\* comment in optimization.py says: "the extremum intervals always form a cover
\* of the true minimizer set".
CoverIsKept == area = "optimization" => OP!CoverIsKept

\* A decimal input of either floating format gets the nearest value of it, ties to
\* even, as the warning of floating.py says: "rounded to the nearest representable
\* {format_name} value using ties-to-even".
NearestRepresentable == area = "floating" => EN!NearestRepresentable
=============================================================================
