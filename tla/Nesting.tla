------------------------------- MODULE Nesting -------------------------------
(* The bracket-depth guard of vector-bindings/src/nesting.rs, next to the    *)
(* parser it protects.  The guard reads the source character by character    *)
(* with one character of lookahead; the VRL lexer and parser, which are not  *)
(* part of the repository, are followed over the same characters: what is a  *)
(* literal, and how deep the parser's stack of open brackets gets before the *)
(* first bracket that does not match.                                        *)
EXTENDS Integers, Sequences

CONSTANTS
  Limit,      \* MAX_VRL_NESTING_DEPTH
  MaxLength   \* bound: characters read

ASSUME NestingAssumption == Limit \in Nat /\ MaxLength \in Nat

VARIABLES
  peek,      \* the next character, "end" after the last
  length,    \* characters read
  mode,      \* where max_bracket_depth stands in its loops
  depth,     \* its depth
  maxDepth,  \* its max_depth
  verdict,   \* check_nesting_depth: reading, accepted or rejected
  literal,   \* the literal the VRL lexer is in, or "none"
  last,      \* whether its last character began an escape
  word,      \* and whether it began, or went on with, a word
  stack,     \* the brackets the parser has open
  deepest,   \* how deep its stack has been
  stuck      \* it met a bracket that does not match

scanner == <<mode, depth, maxDepth>>
lexer   == <<literal, last, word>>
parser  == <<stack, deepest, stuck>>
vars    == <<peek, length, scanner, verdict, lexer, parser>>

(* One letter stands for r, s and t, one for the rest of the identifiers.    *)
Openers  == {"(", "{", "["}
Closers  == {")", "}", "]"}
Letters  == {"r", "x"}
Others   == {"quote", "apostrophe", "backslash", "hash", "newline", "space"}
Chars    == Openers \union Closers \union Letters \union Others

Closer == [b \in Openers |-> CASE b = "(" -> ")" [] b = "{" -> "}" [] b = "[" -> "]"]
Larger(a, b) == IF a >= b THEN a ELSE b

-----------------------------------------------------------------------------
(* max_bracket_depth, one character at a time.  Out of a literal the loop    *)
(* looks at the character; in an identifier it first runs to its end.        *)
InCode(c) == mode = "code" \/ (mode = "identifier" /\ c \notin Letters)

Open(c) ==
  /\ InCode(c) /\ c \in Openers
  /\ depth' = depth + 1
  /\ maxDepth' = Larger(maxDepth, depth')
  /\ mode' = "code"

(* saturating_sub(1), whatever the bracket's kind. *)
OneLess(n)  == n - 1
Decrease(n) == IF n > 0 THEN n - 1 ELSE 0

Close(c) ==
  /\ InCode(c) /\ c \in Closers
  /\ depth' = Decrease(depth)
  /\ mode' = "code"
  /\ UNCHANGED maxDepth

OpensAnywhere(c) == c = "r" /\ peek' = "apostrophe"
OpensRaw(c)      == c = "r" /\ mode = "code" /\ peek' = "apostrophe"

(* Anything else in code: a literal or a comment may begin, or an identifier *)
(* may begin or go on.                                                       *)
Other(c) ==
  /\ mode \in {"code", "identifier"}
  /\ c \notin Openers \union Closers
  /\ \/ OpensRaw(c) /\ mode' = "prefix"
     \/ c \in Letters /\ ~OpensRaw(c) /\ mode' = "identifier"
     \/ c = "quote" /\ mode' = "string"
     \/ c = "hash" /\ mode' = "comment"
     \/ c \in Others \ {"quote", "hash"} /\ mode' = "code"
  /\ UNCHANGED <<depth, maxDepth>>

(* skip_quoted and the loop over a comment.  A backslash takes the next      *)
(* character with it.                                                        *)
NoEscape(c) == FALSE
Escapes(c)  == c = "backslash"

Moves(from, to) == mode = from /\ mode' = to

Skip(c) ==
  /\ \/ Moves("prefix", "raw")
     \/ c = "quote" /\ Moves("string", "code")
     \/ c = "apostrophe" /\ Moves("raw", "code")
     \/ c = "newline" /\ Moves("comment", "code")
     \/ c # "newline" /\ Moves("comment", "comment")
     \/ Escapes(c) /\ (Moves("string", "in string") \/ Moves("raw", "in raw"))
     \/ Moves("in string", "string") \/ Moves("in raw", "raw")
     \/ c # "quote" /\ ~Escapes(c) /\ Moves("string", "string")
     \/ c # "apostrophe" /\ ~Escapes(c) /\ Moves("raw", "raw")
  /\ UNCHANGED <<depth, maxDepth>>

Scan(c) == Open(c) \/ Close(c) \/ Other(c) \/ Skip(c)

-----------------------------------------------------------------------------
(* The VRL lexer.  Outside a literal it only remembers whether a word has    *)
(* just begun with r, s or t ("prefix"), goes on ("inside") or is not being  *)
(* read ("no").                                                              *)
Begins(c, kind) ==
  \/ kind = "string" /\ c = "quote"
  \/ kind = "comment" /\ c = "hash"
  \/ kind = "raw" /\ c = "apostrophe" /\ word = "prefix"

LexCode(c) ==
  /\ literal = "none" /\ last' = "other"
  /\ \/ \E kind \in {"string", "comment", "raw"} : Begins(c, kind) /\ literal' = kind
     \/ literal' = "none" /\ \A kind \in {"string", "comment", "raw"} : ~Begins(c, kind)
  /\ word' = IF c \notin Letters THEN "no"
             ELSE IF word = "no" /\ c = "r" THEN "prefix" ELSE "inside"

Ends(c) ==
  \/ literal = "string" /\ c = "quote" /\ last # "escape"
  \/ literal = "raw" /\ c = "apostrophe" /\ last # "escape"
  \/ literal = "comment" /\ c = "newline"

LexLiteral(c) ==
  /\ literal # "none" /\ word' = "no"
  /\ literal' = IF Ends(c) THEN "none" ELSE literal
  /\ last' = IF literal # "comment" /\ c = "backslash" /\ last # "escape"
             THEN "escape" ELSE "other"

Lex(c) == LexCode(c) \/ LexLiteral(c)

(* Its parser: one stack frame per open bracket, until one does not match.   *)
Parse(c) ==
  LET reads == literal = "none" /\ ~stuck
  IN  CASE reads /\ c \in Openers ->
             /\ stack' = <<c>> \o stack
             /\ deepest' = Larger(deepest, Len(stack) + 1)
             /\ UNCHANGED stuck
        [] reads /\ c \in Closers ->
             /\ UNCHANGED deepest
             /\ IF stack # <<>> /\ Closer[Head(stack)] = c
                THEN stack' = Tail(stack) /\ UNCHANGED stuck
                ELSE stuck' = TRUE /\ UNCHANGED stack
        [] OTHER -> UNCHANGED <<stack, deepest, stuck>>

-----------------------------------------------------------------------------
Init ==
  /\ peek \in Chars \union {"end"} /\ length = 0
  /\ mode = "code" /\ depth = 0 /\ maxDepth = 0
  /\ verdict = "reading"
  /\ literal = "none" /\ last = "other" /\ word = "no"
  /\ stack = <<>> /\ deepest = 0 /\ stuck = FALSE

Read ==
  /\ verdict = "reading" /\ peek # "end"
  /\ length' = length + 1
  /\ peek' \in IF length' < MaxLength THEN Chars \union {"end"} ELSE {"end"}
  /\ Scan(peek) /\ Lex(peek) /\ Parse(peek)
  /\ UNCHANGED verdict

(* check_nesting_depth *)
TooDeepAtLimit == maxDepth >= Limit
TooDeep        == maxDepth > Limit

Decide ==
  /\ verdict = "reading" /\ peek = "end"
  /\ verdict' = IF TooDeep THEN "rejected" ELSE "accepted"
  /\ UNCHANGED <<peek, length, scanner, lexer, parser>>

Next == Read \/ Decide

Spec == Init /\ [][Next]_vars

-----------------------------------------------------------------------------
Modes == {"code", "identifier", "prefix", "string", "in string", "raw", "in raw",
          "comment"}

ScannerType ==
  /\ mode \in Modes
  /\ depth \in Nat /\ maxDepth \in Nat /\ depth <= maxDepth
  /\ verdict \in {"reading", "accepted", "rejected"}
LexerType ==
  /\ literal \in {"none", "string", "raw", "comment"}
  /\ last \in {"escape", "other"}
  /\ word \in {"no", "prefix", "inside"}
ParserType == stack \in Seq(Openers) /\ deepest \in Nat /\ stuck \in BOOLEAN

(* The type invariant; in particular the depth, a usize, never goes below    *)
(* zero, however many closers there are.                                     *)
TypeOK ==
  /\ peek \in Chars \union {"end"} /\ length \in Nat
  /\ ScannerType /\ LexerType /\ ParserType

(* The guard protects the stack: a source it accepts never makes the parser  *)
(* open more brackets than the limit, whatever its literals, escapes,        *)
(* comments and mismatched closers look like ("a bracket inside one is       *)
(* neither counted nor allowed to close a real one"; "counting every kind    *)
(* together can only overstate the depth").                                  *)
AcceptedStaysWithinLimit == verdict = "accepted" => deepest <= Limit

(* And it refuses nothing else: a source whose brackets match is rejected    *)
(* only if it nests deeper than the limit.                                   *)
RejectedIsTooDeep == verdict = "rejected" /\ ~stuck => deepest > Limit
=============================================================================
