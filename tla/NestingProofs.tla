---------------------------- MODULE NestingProofs ----------------------------
(* The bracket guard is right for sources of any length and for any limit.   *)
EXTENDS Nesting, SequenceTheorems, TLAPS

(* The guard and the VRL lexer are in the same literal, with the same escape *)
(* pending, and agree on what an r before an apostrophe means.               *)
SameLiteral ==
  /\ literal = "none" <=> mode \in {"code", "identifier", "prefix"}
  /\ literal = "string" <=> mode \in {"string", "in string"}
  /\ literal = "raw" <=> mode \in {"raw", "in raw"}
  /\ last = "escape" <=> mode \in {"in string", "in raw"}
  /\ mode = "prefix" => word = "prefix" /\ peek = "apostrophe"
  /\ mode = "identifier" => word # "no" /\ (word = "prefix" => peek # "apostrophe")
  /\ mode \notin {"prefix", "identifier"} => word = "no"

(* Until a bracket does not match they also agree on the depth; after that   *)
(* the parser has stopped and the guard can only count further.              *)
SameDepth ==
  /\ deepest <= maxDepth
  /\ ~stuck => depth = Len(stack) /\ deepest = maxDepth

Decided ==
  /\ verdict = "accepted" => maxDepth <= Limit
  /\ verdict = "rejected" => maxDepth > Limit

IInv == TypeOK /\ SameLiteral /\ SameDepth /\ Decided

-----------------------------------------------------------------------------
(* Nothing has been read at first.                                           *)
LEMMA InitIInv == Init => IInv
  <1> SUFFICES ASSUME Init PROVE IInv
    OBVIOUS
  <1>1. <<>> \in Seq(Openers) /\ Len(<<>>) = 0
    OBVIOUS
  <1>2. TypeOK
    <2>1. peek \in Chars \union {"end"} /\ length \in Nat
      BY DEF Init
    <2>2. ScannerType
      BY DEF Init, ScannerType, Modes
    <2>3. LexerType
      BY DEF Init, LexerType
    <2>4. ParserType
      BY <1>1 DEF Init, ParserType
    <2>5. QED  BY <2>1, <2>2, <2>3, <2>4 DEF TypeOK
  <1>3. SameLiteral
    BY DEF Init, SameLiteral
  <1>4. SameDepth /\ Decided
    BY <1>1 DEF Init, SameDepth, Decided
  <1>5. QED  BY <1>2, <1>3, <1>4 DEF IInv

(* One character keeps the guard in the lexer's literal.                     *)
LEMMA LiteralStep ==
  ASSUME IInv, Read
  PROVE  mode' \in Modes /\ LexerType' /\ SameLiteral'
  <1>1. /\ SameLiteral /\ LexerType /\ mode \in Modes
        /\ peek \in Chars /\ Scan(peek) /\ Lex(peek)
    BY DEF IInv, TypeOK, ScannerType, Read
  <1>2. LexerType'
    BY <1>1 DEF Lex, LexCode, LexLiteral, LexerType
  <1>3. CASE Open(peek) \/ Close(peek)
    <2>1. literal = "none" /\ mode' = "code" /\ peek \in Openers \union Closers
      BY <1>1, <1>3 DEF Open, Close, InCode, SameLiteral
    <2>2. literal' = "none" /\ last' = "other" /\ word' = "no"
      BY <1>1, <2>1 DEF Lex, LexCode, LexLiteral, Begins, Openers, Closers, Letters
    <2>3. QED  BY <1>2, <2>1, <2>2 DEF SameLiteral, Modes
  <1>4. CASE Other(peek)
    <2>1. /\ mode \in {"code", "identifier"} /\ literal = "none"
          /\ peek = "apostrophe" => word # "prefix"
          /\ word = "no" <=> mode = "code"
      BY <1>1, <1>4 DEF Other, SameLiteral
    <2>2. /\ last' = "other"
          /\ literal' = IF peek = "quote" THEN "string"
                        ELSE IF peek = "hash" THEN "comment" ELSE "none"
          /\ word' = IF peek \notin Letters THEN "no"
                     ELSE IF word = "no" /\ peek = "r" THEN "prefix" ELSE "inside"
      BY <1>1, <2>1 DEF Lex, LexCode, LexLiteral, Begins
    <2>3. CASE peek \in Letters /\ OpensRaw(peek)
      <3>1. mode' = "prefix" /\ mode = "code" /\ peek = "r" /\ peek' = "apostrophe"
        BY <1>4, <2>3 DEF Other, OpensRaw, Letters, Others
      <3>2. literal' = "none" /\ word' = "prefix"
        BY <2>1, <2>2, <3>1 DEF Letters
      <3>3. QED  BY <1>2, <2>2, <3>1, <3>2 DEF SameLiteral, Modes
    <2>4. CASE peek \in Letters /\ ~OpensRaw(peek)
      <3>1. mode' = "identifier" /\ peek # "quote" /\ peek # "hash"
        BY <1>4, <2>4 DEF Other, Letters, Others
      <3>2. literal' = "none" /\ word' # "no"
        BY <2>2, <2>4, <3>1
      <3>3. word' = "prefix" => peek' # "apostrophe"
        BY <2>1, <2>2, <2>4 DEF OpensRaw
      <3>4. QED  BY <1>2, <2>2, <3>1, <3>2, <3>3 DEF SameLiteral, Modes
    <2>5. CASE peek \notin Letters
      <3>1. /\ word' = "no"
            /\ mode' = IF peek = "quote" THEN "string"
                       ELSE IF peek = "hash" THEN "comment" ELSE "code"
        BY <1>4, <2>2, <2>5 DEF Other, OpensRaw, Letters, Others
      <3>2. QED  BY <1>2, <2>2, <3>1 DEF SameLiteral, Modes
    <2>6. QED  BY <1>2, <2>3, <2>4, <2>5
  <1>5. CASE Skip(peek) /\ mode = "prefix"
    <2>1. mode' = "raw" /\ peek = "apostrophe" /\ literal = "none" /\ word = "prefix"
      BY <1>1, <1>5 DEF Skip, Moves, SameLiteral
    <2>2. literal' = "raw" /\ last' = "other" /\ word' = "no"
      BY <1>1, <2>1 DEF Lex, LexCode, LexLiteral, Begins, Letters
    <2>3. QED  BY <1>2, <2>1, <2>2 DEF SameLiteral, Modes
  <1>6. CASE Skip(peek) /\ mode # "prefix"
    <2>1. literal # "none" /\ LexLiteral(peek)
      BY <1>1, <1>6 DEF Skip, Moves, SameLiteral, Lex, LexCode
    <2>2. CASE mode \in {"string", "in string"}
      <3>1. literal = "string" /\ (last = "escape" <=> mode = "in string")
        BY <1>1, <2>2 DEF SameLiteral
      <3>2. /\ mode' = IF mode = "in string" THEN "string"
                       ELSE IF peek = "quote" THEN "code"
                       ELSE IF peek = "backslash" THEN "in string" ELSE "string"
            /\ word' = "no"
            /\ literal' = IF peek = "quote" /\ last # "escape" THEN "none"
                          ELSE "string"
            /\ last' = IF peek = "backslash" /\ last # "escape" THEN "escape"
                       ELSE "other"
        BY <1>6, <2>1, <2>2, <3>1 DEF Skip, Moves, Escapes, LexLiteral, Ends
      <3>3. QED  BY <1>2, <2>2, <3>1, <3>2 DEF SameLiteral, Modes
    <2>3. CASE mode \in {"raw", "in raw"}
      <3>1. literal = "raw" /\ (last = "escape" <=> mode = "in raw")
        BY <1>1, <2>3 DEF SameLiteral
      <3>2. /\ mode' = IF mode = "in raw" THEN "raw"
                       ELSE IF peek = "apostrophe" THEN "code"
                       ELSE IF peek = "backslash" THEN "in raw" ELSE "raw"
            /\ word' = "no"
            /\ literal' = IF peek = "apostrophe" /\ last # "escape" THEN "none"
                          ELSE "raw"
            /\ last' = IF peek = "backslash" /\ last # "escape" THEN "escape"
                       ELSE "other"
        BY <1>6, <2>1, <2>3, <3>1 DEF Skip, Moves, Escapes, LexLiteral, Ends
      <3>3. QED  BY <1>2, <2>3, <3>1, <3>2 DEF SameLiteral, Modes
    <2>4. CASE mode = "comment"
      BY <1>1, <1>6, <2>1, <2>4
      DEF Skip, Moves, Escapes, LexLiteral, LexerType, Ends, SameLiteral, Modes
    <2>5. QED  BY <1>1, <1>2, <1>6, <2>2, <2>3, <2>4 DEF Skip, Moves
  <1>7. QED  BY <1>1, <1>3, <1>4, <1>5, <1>6 DEF Scan

(* One character keeps the depths: the guard counts a bracket exactly when   *)
(* the parser, unless it is stuck, reads it.                                 *)
LEMMA DepthStep ==
  ASSUME IInv, Read
  PROVE  /\ depth' \in Nat /\ maxDepth' \in Nat /\ depth' <= maxDepth'
         /\ ParserType'
         /\ SameDepth'
  <1> USE DEF IInv, TypeOK, ScannerType, ParserType, SameDepth
  <1>1. peek \in Chars /\ Scan(peek) /\ Parse(peek)
    BY DEF Read
  <1>2. InCode(peek) /\ peek \in Openers \union Closers =>
          literal = "none"
    BY DEF InCode, SameLiteral
  <1>3. literal = "none" /\ peek \in Openers \union Closers => InCode(peek)
    BY DEF InCode, SameLiteral, Openers, Closers, Letters
  <1>4. CASE Open(peek)
    <2>1. /\ peek \in Openers /\ literal = "none"
          /\ depth' = depth + 1 /\ maxDepth' = Larger(maxDepth, depth + 1)
      BY <1>2, <1>4 DEF Open
    <2>2. IF stuck THEN UNCHANGED <<stack, deepest, stuck>>
          ELSE /\ stack' = <<peek>> \o stack /\ stuck' = stuck
               /\ deepest' = Larger(deepest, Len(stack) + 1)
      BY <1>1, <2>1 DEF Parse, Openers, Closers
    <2>3. /\ <<peek>> \o stack \in Seq(Openers)
          /\ Len(<<peek>> \o stack) = Len(stack) + 1
      BY <2>1
    <2>4. Larger(maxDepth, depth + 1) \in Nat
          /\ depth + 1 <= Larger(maxDepth, depth + 1)
          /\ maxDepth <= Larger(maxDepth, depth + 1)
      BY DEF Larger
    <2>5. CASE stuck
      BY <2>1, <2>2, <2>4, <2>5
    <2>6. CASE ~stuck
      <3>1. depth = Len(stack) /\ deepest = maxDepth
        BY <2>6
      <3>2. depth' = Len(stack') /\ deepest' = maxDepth' /\ stack' \in Seq(Openers)
        BY <2>1, <2>2, <2>3, <2>6, <3>1
      <3>3. QED  BY <2>1, <2>2, <2>4, <2>6, <3>2
    <2>7. QED  BY <2>5, <2>6
  <1>5. CASE Close(peek)
    <2>1. /\ peek \in Closers /\ literal = "none"
          /\ depth' = Decrease(depth) /\ maxDepth' = maxDepth
      BY <1>2, <1>5 DEF Close
    <2>2. \/ UNCHANGED <<stack, deepest>> /\ stuck' = TRUE
          \/ /\ ~stuck /\ stuck' = stuck /\ deepest' = deepest
             /\ stack # <<>> /\ stack' = Tail(stack)
      BY <1>1, <2>1 DEF Parse, Openers, Closers
    <2>3. stack # <<>> => /\ Tail(stack) \in Seq(Openers)
                          /\ Len(Tail(stack)) = Len(stack) - 1
                          /\ Len(stack) \in Nat \ {0}
      BY EmptySeq, HeadTailProperties
    <2>4. depth' \in Nat /\ depth' <= maxDepth'
      BY <2>1 DEF Decrease
    <2>5. CASE UNCHANGED <<stack, deepest>> /\ stuck' = TRUE
      BY <2>1, <2>4, <2>5
    <2>6. CASE /\ ~stuck /\ stuck' = stuck /\ deepest' = deepest
               /\ stack # <<>> /\ stack' = Tail(stack)
      <3>1. depth = Len(stack) /\ deepest = maxDepth
        BY <2>6
      <3>2. stack' \in Seq(Openers) /\ depth' = Len(stack')
        BY <2>1, <2>3, <2>6, <3>1 DEF Decrease
      <3>3. QED  BY <2>1, <2>4, <2>6, <3>1, <3>2
    <2>7. QED  BY <2>2, <2>5, <2>6
  <1>6. CASE Other(peek) \/ Skip(peek)
    <2>1. UNCHANGED <<depth, maxDepth>>
      BY <1>6 DEF Other, Skip
    <2>2. ~(literal = "none" /\ peek \in Openers \union Closers)
      BY <1>3, <1>6 DEF Other, Skip, Moves, InCode
    <2>3. UNCHANGED <<stack, deepest, stuck>>
      BY <1>1, <2>2 DEF Parse
    <2>4. QED  BY <2>1, <2>3
  <1>7. QED  BY <1>1, <1>4, <1>5, <1>6 DEF Scan

(* Every step keeps the invariant.                                           *)
LEMMA NextIInv == IInv /\ [Next]_vars => IInv'
  <1> SUFFICES ASSUME IInv, [Next]_vars PROVE IInv'
    OBVIOUS
  <1>1. CASE Read
    <2>1. /\ peek' \in Chars \union {"end"} /\ length' \in Nat
          /\ verdict' = verdict /\ verdict = "reading"
      BY <1>1 DEF Read, IInv, TypeOK
    <2>2. QED
      BY <1>1, <2>1, LiteralStep, DepthStep DEF IInv, TypeOK, ScannerType, Decided
  <1>2. CASE Decide
    <2>1. UNCHANGED <<peek, length, mode, depth, maxDepth, literal, last, word, stack,
                      deepest, stuck>>
      BY <1>2 DEF Decide, scanner, lexer, parser
    <2>2. /\ verdict' \in {"accepted", "rejected"}
          /\ verdict' = "rejected" <=> maxDepth > Limit
      BY <1>2 DEF Decide, TooDeep
    <2>3. TypeOK'
      BY <2>1, <2>2 DEF IInv, TypeOK, ScannerType, LexerType, ParserType
    <2>4. SameLiteral' /\ SameDepth'
      BY <2>1 DEF IInv, SameLiteral, SameDepth
    <2>5. Decided'
      BY <2>1, <2>2, NestingAssumption DEF IInv, TypeOK, ScannerType, Decided
    <2>6. QED  BY <2>3, <2>4, <2>5 DEF IInv
  <1>3. CASE UNCHANGED vars
    BY <1>3 DEF vars, scanner, lexer, parser, IInv, TypeOK, ScannerType, LexerType, ParserType, SameLiteral, SameDepth, Decided
  <1>4. QED  BY <1>1, <1>2, <1>3 DEF Next

(* IInv is an inductive invariant of the guard and its parser.               *)
THEOREM NestingInvariance == Spec => []IInv
  BY InitIInv, NextIInv, PTL DEF Spec

(* Every variable keeps its type; the depth never goes below zero.           *)
THEOREM NestingTypeCorrect == Spec => []TypeOK
  <1>1. IInv => TypeOK
    BY DEF IInv
  <1>2. QED  BY NestingInvariance, <1>1, PTL

(* No source the guard accepts makes the parser nest deeper than the limit.  *)
THEOREM AcceptedAlwaysStaysWithinLimit == Spec => []AcceptedStaysWithinLimit
  <1>1. IInv => AcceptedStaysWithinLimit
    BY NestingAssumption DEF IInv, TypeOK, ScannerType, ParserType, SameDepth, Decided, AcceptedStaysWithinLimit
  <1>2. QED  BY NestingInvariance, <1>1, PTL

(* No source whose brackets match is rejected unless it nests too deep.      *)
THEOREM RejectedIsAlwaysTooDeep == Spec => []RejectedIsTooDeep
  <1>1. IInv => RejectedIsTooDeep
    BY DEF IInv, SameDepth, Decided, RejectedIsTooDeep
  <1>2. QED  BY NestingInvariance, <1>1, PTL
=============================================================================
