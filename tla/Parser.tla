-------------------------------- MODULE Parser --------------------------------
(***************************************************************************)
(* The parser as a machine over the tokens the lexer has returned: a stack *)
(* of the calls in progress, each with the steps it has left and the       *)
(* children it has collected.  A node is [kind, kids]; a leaf is the index *)
(* of a token, its kind is "token".                                        *)
(***************************************************************************)
EXTENDS ParserCode

VARIABLES
  pos,     \* the index of the current token
  depth,   \* condition_expr_depth
  frames,  \* the calls in progress, the innermost first: [code, kids, min]
  lost,    \* tokens that will be in no node, with the reason: [at, why]
  tree     \* the source file, once it is parsed

parseVars == <<pos, depth, frames, lost, tree>>

NoTree == [kind |-> "none", kids |-> <<>>]

Kind(i) == IF i \in DOMAIN tokens THEN tokens[i].kind ELSE "Eof"
Leaf(i) == [kind |-> "token", at |-> i]

RECURSIVE LeavesOf(_)
LeavesOf(n) ==
  IF n.kind = "token" THEN <<n.at>>
  ELSE FoldLeft(LAMBDA acc, kid : acc \o LeavesOf(kid), <<>>, n.kids)

\* Where the tokens from i on that are not trivia begin.
NextSignificant(i) ==
  CHOOSE j \in i .. Max({i, Len(tokens) + 1}) :
    /\ Kind(j) \notin TriviaKinds
    /\ \A k \in i .. j - 1 : Kind(k) \in TriviaKinds

-----------------------------------------------------------------------------
(* The innermost call. *)

Top     == Head(frames)
Running == frames /= <<>>
Step    == Head(Top.code)
Rest    == Tail(Top.code)

Doing(op) == Running /\ Step.op = op

\* The call goes on with some steps and some children.
Continue(code, kids) ==
  frames' = <<[Top EXCEPT !.code = code, !.kids = kids]>> \o Tail(frames)

\* Mutant: the node is put before the caller's children.
ReturnInFront(node) ==
  IF Len(frames) = 1
  THEN frames' = <<>> /\ tree' = node
  ELSE /\ frames' = <<[frames[2] EXCEPT !.kids = <<node>> \o @]>> \o Tail(Tail(frames))
       /\ UNCHANGED tree

\* The call ends: its node is a child of the caller's.
Return(node) ==
  IF Len(frames) = 1
  THEN frames' = <<>> /\ tree' = node
  ELSE /\ frames' = <<[frames[2] EXCEPT !.kids = Append(@, node)]>> \o Tail(Tail(frames))
       /\ UNCHANGED tree

\* A call begins, before the rest of the caller's steps.
Enter(code, kids, min, callerCode, callerKids) ==
  frames' = <<[code |-> code, kids |-> kids, min |-> min],
              [Top EXCEPT !.code = callerCode, !.kids = callerKids]>> \o Tail(frames)

Holds(test) ==
  /\ test.ask = "current" => Kind(pos) \in test.kinds[1]
  /\ test.ask = "ahead" =>
       LET ahead[n \in DOMAIN test.kinds] ==
             NextSignificant(IF n = 1 THEN pos ELSE ahead[n - 1] + 1)
       IN \A n \in DOMAIN test.kinds : Kind(ahead[n]) \in test.kinds[n]
  /\ test.node /= "any" => Last(Top.kids).kind = test.node

Discard(first, next, why) == lost' = lost \cup {[at |-> i, why |-> why] : i \in first .. next - 1}

\* Only a token before the end is ever passed.
Past(i) == IF Kind(i) = "Eof" THEN i ELSE i + 1

-----------------------------------------------------------------------------
(* The steps *)

eat_trivia ==
  LET next == NextSignificant(pos)
  IN /\ pos' = next
     /\ \/ /\ Doing("trivia")
           /\ Continue(Rest, Top.kids \o [n \in 1 .. next - pos |-> Leaf(pos + n - 1)])
           /\ UNCHANGED lost
        \/ /\ Doing("skip")
           /\ Continue(Rest, Top.kids)
           /\ Discard(pos, next, "trivia")
     /\ UNCHANGED <<depth, tree>>

bump ==
  /\ Doing("bump")
  /\ pos' = Past(pos)
  /\ Continue(Rest, Append(Top.kids, Leaf(pos)))
  /\ UNCHANGED <<depth, lost, tree>>

\* The children collected so far end up in no node.
Dropped ==
  /\ Doing("forget")
  /\ Continue(Rest, <<>>)
  /\ lost' = lost \cup
       {[at |-> i, why |-> "dropped"] : i \in UNION {Range(LeavesOf(Top.kids[k])) : k \in DOMAIN Top.kids}}
  /\ UNCHANGED <<pos, depth, tree>>

Choose ==
  /\ \/ Doing("if") /\ Continue((IF Holds(Step.test) THEN Step.yes ELSE Step.no) \o Rest, Top.kids)
     \/ /\ Doing("switch")
        /\ Continue((IF Kind(pos) \in DOMAIN Step.table THEN Step.table[Kind(pos)]
                     ELSE Step.default) \o Rest, Top.kids)
     \/ Doing("goto") /\ Continue(CodeOf[Step.fn], Top.kids)
  /\ UNCHANGED <<pos, depth, lost, tree>>

Round ==
  /\ Doing("loop")
  /\ LET stops == \/ Kind(pos) = "Eof"
                  \/ Step.until /\ Kind(pos) \in Step.kinds
                  \/ ~Step.until /\ Kind(pos) \notin Step.kinds
         check == IF Step.guarded THEN <<[op |-> "progress", start |-> pos]>> ELSE <<>>
     IN Continue(IF stops THEN Rest ELSE Step.body \o check \o Top.code, Top.kids)
  /\ UNCHANGED <<pos, depth, lost, tree>>

\* Mutant: only the round is left.
ContinueLoop ==
  /\ Doing("break")
  /\ LET loop == SelectInSeq(Top.code, LAMBDA step : step.op = "loop")
     IN Continue(SubSeq(Top.code, loop, Len(Top.code)), Top.kids)
  /\ UNCHANGED <<pos, depth, lost, tree>>

\* Out of the innermost loop, which is the first one among the steps left.
BreakLoop ==
  /\ Doing("break")
  /\ LET loop == SelectInSeq(Top.code, LAMBDA step : step.op = "loop")
     IN Continue(SubSeq(Top.code, loop + 1, Len(Top.code)), Top.kids)
  /\ UNCHANGED <<pos, depth, lost, tree>>

ensure_progress ==
  /\ Doing("progress")
  /\ pos' = IF pos = Step.start THEN Past(pos) ELSE pos
  /\ Discard(pos, pos', "recovery")
  /\ Continue(Rest, Top.kids)
  /\ UNCHANGED <<depth, tree>>

\* Mutant: a call that takes over what the caller has parsed begins with nothing.
CallParseAfresh ==
  /\ \/ Doing("call") /\ Enter(CodeOf[Step.fn], <<>>, Step.min, Rest, Top.kids)
     \/ Doing("sub") /\ Enter(Step.code, <<>>, PrecNone, Rest, Top.kids)
     \/ Doing("wrap") /\ Enter(CodeOf[Step.fn], <<>>, PrecNone, Rest, <<>>)
  /\ UNCHANGED <<pos, depth, lost, tree>>

CallParse ==
  /\ \/ Doing("call") /\ Enter(CodeOf[Step.fn], <<>>, Step.min, Rest, Top.kids)
     \/ Doing("sub") /\ Enter(Step.code, <<>>, PrecNone, Rest, Top.kids)
     \/ Doing("wrap") /\ Enter(CodeOf[Step.fn], Top.kids, PrecNone, Rest, <<>>)
  /\ UNCHANGED <<pos, depth, lost, tree>>

FinishNode ==
  /\ \/ Doing("node") /\ Return([kind |-> Step.kind, kids |-> Top.kids])
     \/ Doing("lift") /\ Return(Last(Top.kids))
  /\ UNCHANGED <<pos, depth, lost>>

EnterCondition ==
  /\ Doing("condition")
  /\ depth' = depth + Step.delta
  /\ Continue(Rest, Top.kids)
  /\ UNCHANGED <<pos, lost, tree>>

Postfix ==
  "OpenParen" :> parse_call @@ "DoubleColon" :> parse_path_or_turbofish
  @@ "OpenBrace" :> parse_struct_literal_expr @@ "Question" :> parse_optional_chaining
  @@ "Dot" :> parse_member_access @@ "Bang" :> parse_postfix_bang

\* The loop of parse_expr: the operand grows by what binds stronger than the
\* caller's precedence; the trivia before it is not kept.
ExtendOperand ==
  /\ Doing("operators")
  /\ LET next == NextSignificant(pos)
         kind == Kind(next)
         prec == Precedence(kind)
     IN IF (depth > 0 /\ kind = "OpenBrace") \/ prec <= Top.min \/ prec = PrecNone
        THEN Return(Last(Top.kids)) /\ UNCHANGED <<pos, lost>>
        ELSE /\ pos' = next
             /\ Discard(pos, next, "trivia")
             /\ Enter(IF kind \in DOMAIN Postfix THEN Postfix[kind] ELSE parse_binary(prec),
                      Top.kids, PrecNone, Top.code, <<>>)
             /\ UNCHANGED tree
  /\ UNCHANGED depth

ParserStep ==
  \/ eat_trivia \/ bump \/ Dropped \/ Choose \/ Round \/ BreakLoop \/ ensure_progress
  \/ CallParse \/ FinishNode \/ EnterCondition \/ ExtendOperand

ParserIdle == pos = 1 /\ depth = 0 /\ frames = <<>> /\ lost = {} /\ tree = NoTree

\* Parser::new and parse_source_file.
StartParsing ==
  /\ frames' = <<[code |-> parse_source_file, kids |-> <<>>, min |-> PrecNone]>>
  /\ pos' = 1 /\ depth' = 0 /\ lost' = {} /\ tree' = NoTree

-----------------------------------------------------------------------------
(* What has been parsed. *)

Parsed == tree /= NoTree
Leaves == SelectSeq(LeavesOf(tree), LAMBDA i : Kind(i) /= "Eof")

RECURSIVE NodesOf(_)
NodesOf(n) ==
  IF n.kind = "token" THEN {} ELSE {n} \cup UNION {NodesOf(n.kids[i]) : i \in DOMAIN n.kids}

=============================================================================
