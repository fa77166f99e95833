----------------------------- MODULE Automapper -----------------------------
(***************************************************************************)
(* Automapper files in the client (twmap/automap.ts): the linter, which    *)
(* marks a text's faults, the parser, which turns the text into            *)
(* configurations, and the loop that runs one over a layer of tiles.       *)
(*                                                                         *)
(* A text is a sequence of lines and a line the sequence of its tokens,    *)
(* empty where the line is blank or a comment.  A token is a record with   *)
(* one field, as in the code: word, header, int, float (in percent), or    *)
(* bad for a number or header that cannot be read.  The parser is one      *)
(* action per turn of its loop, so that a turn that does not move on is    *)
(* seen.                                                                   *)
(***************************************************************************)
EXTENDS Integers, Sequences, SequencesExt, FiniteSetsExt

CONSTANTS
    Files,              \* the texts
    Layers,             \* the layers a configuration may be run on
    Hash(_, _, _, _),   \* hashLocation of a run, a rule and a cell
    HashMax

VARIABLES
    file, line, token,  \* the text and where the reader is
    configs,            \* what was parsed
    open, defaultRule,  \* the parser's `indexRule !== null` and `defaultRule`
    status,             \* "reading", "read", "null" (given up) or "mapping"
    layer, config, applied  \* a layer, its configuration and the runs done
vars == <<file, line, token, configs, open, defaultRule, status, layer, config, applied>>
reader == <<file, line, token>>
mapping == <<layer, config, applied>>

-----------------------------------------------------------------------------
(* Tokens *)

Is(tokens, i, kind) == i \in DOMAIN tokens /\ kind \in DOMAIN tokens[i]
IsWord(tokens, i, words) == Is(tokens, i, "word") /\ tokens[i].word \in words

FlagOf == [XFLIP |-> "VFLIP", YFLIP |-> "HFLIP", ROTATE |-> "ROTATE"]
FlagWords == DOMAIN FlagOf
StateWords == FlagWords \cup {"OR", "NONE"}

-----------------------------------------------------------------------------
(* The linter.  A lint is its level, the place in the line and the reason; *)
(* a linter also says where it stopped.                                    *)

Err(i, reason) == [level |-> "error", at |-> i, reason |-> reason]
Warn(i, reason) == [level |-> "warning", at |-> i, reason |-> reason]
When(condition, lint) == IF condition THEN {lint} ELSE {}
Linted(lints, rest) == [lints |-> lints, rest |-> rest]

(* Mutant of LintIndex: flags are not part of an index rule. *)
LintIndexPlain(tokens) ==
    Linted(When(~Is(tokens, 2, "int"), Err(2, "tile id"))
               \cup When(Len(tokens) > 2, Err(3, "token")), 3)

LintIndex(tokens) ==
    IF ~Is(tokens, 2, "int") THEN Linted({Err(2, "tile id")}, 3)
    ELSE LET lintsOf(i) ==
                 IF ~IsWord(tokens, i, FlagWords) THEN {Err(i, "token")}
                 ELSE When(\E j \in 3 .. i - 1 : tokens[j] = tokens[i], Warn(i, "duplicate"))
         IN Linted(UNION {lintsOf(i) : i \in 3 .. Len(tokens)}, Len(tokens) + 1)

(* One token of the states of a Pos rule; the one after OR is an id. *)
LintState(tokens, acc, i) ==
    LET lints(s) == [acc EXCEPT !.lints = @ \cup s]
        word == tokens[i].word
    IN CASE acc.id = i -> lints(When(~Is(tokens, i, "int"), Err(i, "tile index")))
         [] acc.id # i /\ ~IsWord(tokens, i, StateWords) -> lints({Err(i, "token")})
         [] acc.id # i /\ IsWord(tokens, i, {"OR"}) ->
              [lints(When(i = Len(tokens), Err(i + 1, "tile index")))
                  EXCEPT !.seen = {}, !.id = i + 1]
         [] acc.id # i /\ IsWord(tokens, i, {"NONE"}) ->
              [lints(When(acc.seen # {}, Warn(i, "NONE conflicts"))) EXCEPT !.seen = {"NONE"}]
         [] acc.id # i /\ IsWord(tokens, i, FlagWords) ->
              [lints(When(acc.seen \cap {word, "NONE"} # {}, Warn(i, "flag conflicts")))
                  EXCEPT !.seen = @ \cup {word}]

LintPos(tokens) ==
    LET numbers == UNION {When(~Is(tokens, i, "int"), Err(i, "offset")) : i \in {2, 3}}
        states == FoldLeft(LAMBDA acc, i : LintState(tokens, acc, i),
                      [lints |-> When(~Is(tokens, 5, "int"), Err(5, "tile index")),
                       seen |-> {}, id |-> 0],
                      [k \in 1 .. Len(tokens) - 5 |-> k + 5])
    IN CASE IsWord(tokens, 4, {"EMPTY", "FULL"}) -> Linted(numbers, 5)
         [] IsWord(tokens, 4, {"INDEX", "NOTINDEX"}) ->
              Linted(numbers \cup states.lints, Len(tokens) + 1)
         [] OTHER -> Linted(numbers \cup {Err(4, "token")}, 5)

LintRandom(tokens) ==
    Linted(When(~Is(tokens, 2, "int") /\ ~Is(tokens, 2, "float"), Err(2, "number")), 3)

Fresh == [noLayerCopy |-> FALSE, noDefaultRule |-> FALSE, indexRule |-> FALSE]

LintHeader(tokens) == When(~Is(tokens, 1, "header"), Err(1, "configuration name"))

(* What lintAutomapper says of one line, and the context of the next. *)
LintLine(acc, tokens) ==
    LET word == tokens[1].word
        rule == acc.context.indexRule
        valid == {"NoLayerCopy", "Index", "NewRun"}
                     \cup IF rule THEN {"Pos", "Random", "NoDefaultRule"} ELSE {}
        own == IF IsWord(tokens, 1, {"Index"}) THEN LintIndex(tokens)
               ELSE IF IsWord(tokens, 1, valid \cap {"Pos"}) THEN LintPos(tokens)
               ELSE IF IsWord(tokens, 1, valid \cap {"Random"}) THEN LintRandom(tokens)
               ELSE Linted({}, 2)
        more == CASE acc.first -> LintHeader(tokens)
                  [] ~acc.first /\ Is(tokens, 1, "header") -> When(~rule, Warn(1, "empty"))
                  [] ~acc.first /\ ~Is(tokens, 1, "header") ->
                       IF ~IsWord(tokens, 1, valid) THEN {Err(1, "token")}
                       ELSE When(word = "NewRun" /\ ~rule, Warn(1, "empty"))
                            \cup When(word = "NoLayerCopy" /\ rule, Warn(1, "misplaced"))
                            \cup When(\/ word = "NoLayerCopy" /\ acc.context.noLayerCopy
                                      \/ word = "NoDefaultRule" /\ acc.context.noDefaultRule,
                                      Warn(1, "duplicate"))
        linted == IF acc.first THEN Linted({}, 2) ELSE own
        context ==
            CASE acc.first \/ Is(tokens, 1, "header") \/ IsWord(tokens, 1, {"NewRun"}) -> Fresh
              [] IsWord(tokens, 1, {"Index"}) /\ ~acc.first ->
                   [acc.context EXCEPT !.indexRule = TRUE, !.noDefaultRule = FALSE]
              [] IsWord(tokens, 1, valid \cap {"NoLayerCopy", "NoDefaultRule"}) /\ ~acc.first ->
                   IF word = "NoLayerCopy" THEN [acc.context EXCEPT !.noLayerCopy = TRUE]
                   ELSE [acc.context EXCEPT !.noDefaultRule = TRUE]
              [] OTHER -> acc.context
    IN [first |-> FALSE, context |-> context,
        lints |-> acc.lints \cup linted.lints \cup more
                      \cup When(linted.rest <= Len(tokens), Warn(linted.rest, "end of line"))]

Written(text) == SelectSeq(text, LAMBDA l : l # <<>>)
Lint(text) ==
    FoldLeft(LintLine, [first |-> TRUE, context |-> Fresh, lints |-> {}], Written(text)).lints
HasErrors(text) == \E lint \in Lint(text) : lint.level = "error"

-----------------------------------------------------------------------------
(* Reading the parts of a line, tokens[1] being its word *)

Readable(tokens) ==
    LET bad == {i \in DOMAIN tokens : Is(tokens, i, "bad")}
    IN IF bad = {} THEN tokens ELSE SubSeq(tokens, 1, Min(bad) - 1)
Raised(tokens) == {FlagOf[tokens[i].word] : i \in {j \in DOMAIN tokens : IsWord(tokens, j, FlagWords)}}

ReadTile(tokens) == [id |-> tokens[2].int, flags |-> Raised(Readable(tokens))]

(* A state whose flags were never named is free: any orientation will do. *)
FreeState(id) == [id |-> id, free |-> TRUE, flags |-> {}]
ReadState(tokens, states, i) ==
    LET last == Len(states)
    IN CASE IsWord(tokens, i, FlagWords) ->
              [states EXCEPT ![last].free = FALSE, ![last].flags = @ \cup {FlagOf[tokens[i].word]}]
         [] IsWord(tokens, i, {"NONE"}) -> [states EXCEPT ![last].free = FALSE, ![last].flags = {}]
         [] Is(tokens, i, "int") /\ IsWord(tokens, i - 1, {"OR"}) ->
              Append(states, FreeState(tokens[i].int))
         [] OTHER -> states

StatesOf(tokens) ==
    FoldLeft(LAMBDA states, i : ReadState(tokens, states, i), <<FreeState(tokens[5].int)>>,
             [k \in 1 .. Len(tokens) - 5 |-> k + 5])

(* The parser gives up on a Pos line without these. *)
PosReadable(tokens) ==
    /\ Is(tokens, 2, "int") /\ Is(tokens, 3, "int") /\ Is(tokens, 4, "word")
    /\ IsWord(tokens, 4, {"INDEX", "NOTINDEX"}) =>
         /\ Is(tokens, 5, "int")
         /\ \A i \in 6 .. Len(Readable(tokens)) :
              IsWord(tokens, i, {"OR"}) => Is(tokens, i + 1, "int")

PosRules(tokens) ==
    LET rule(states, invert) ==
            <<[dx |-> tokens[2].int, dy |-> tokens[3].int, states |-> states, invert |-> invert]>>
    IN CASE IsWord(tokens, 4, {"EMPTY", "FULL"}) ->
              rule(<<FreeState(0)>>, IsWord(tokens, 4, {"FULL"}))
         [] IsWord(tokens, 4, {"INDEX", "NOTINDEX"}) ->
              rule(StatesOf(Readable(tokens)), IsWord(tokens, 4, {"NOTINDEX"}))
         [] OTHER -> <<>>

DefaultPosRule == [dx |-> 0, dy |-> 0, states |-> <<FreeState(0)>>, invert |-> TRUE]

(* Chances in percent: a whole number n says one in n. *)
Coef(tokens) ==
    CASE Is(tokens, 2, "float") -> tokens[2].float
      [] Is(tokens, 2, "int") /\ tokens[2].int # 0 -> 100 \div tokens[2].int
      [] OTHER -> 100

-----------------------------------------------------------------------------
(* The parser *)

(* Mutant of NextLine: blank lines are lines. *)
NextLineBlind(from) == from + 1

NextLine(from) == Min({i \in from + 1 .. Len(file) : file[i] # <<>>} \cup {Len(file) + 1})
Empty == line > Len(file) \/ (line = Len(file) /\ token > Len(file[line]))
Tokens == SubSeq(file[line], token, Len(file[line]))
Says(word) == status = "reading" /\ ~Empty /\ configs # <<>> /\ IsWord(Tokens, 1, {word})

EndLine ==
    /\ line' = NextLine(line)
    /\ token' = 1
    /\ UNCHANGED <<file, mapping>>
GiveUp ==
    /\ status' = "null"
    /\ UNCHANGED <<reader, configs, open, defaultRule, mapping>>

(* finishIndexRule, and a change of the last run of the last configuration. *)
WithRun(cs, Op(_)) ==
    LET c == Len(cs)
        r == Len(cs[c].runs)
    IN [cs EXCEPT ![c].runs[r] = Op(@)]
AddTest(test, run) == [run EXCEPT !.rules[Len(run.rules)].tests = Append(@, test)]
Finished ==
    IF open /\ defaultRule THEN WithRun(configs, LAMBDA run : AddTest(DefaultPosRule, run))
    ELSE configs
NewRun == [layerCopy |-> TRUE, rules |-> <<>>]

ReadHeader ==
    /\ status = "reading" /\ ~Empty /\ Is(Tokens, 1, "header")
    /\ configs' = Append(Finished, [name |-> Tokens[1].header, runs |-> <<NewRun>>])
    /\ open' = FALSE /\ defaultRule' = TRUE
    /\ EndLine /\ UNCHANGED status

(* The line is to be skipped, but only its first token is. *)
ReadInvalid ==
    /\ status = "reading" /\ ~Empty /\ ~Is(Tokens, 1, "header")
    /\ ~Is(Tokens, 1, "word") \/ configs = <<>>
    /\ token' = Min({token, Len(file[line])}) + 1
    /\ UNCHANGED <<file, line, configs, open, defaultRule, status, mapping>>

ReadNewRun ==
    /\ Says("NewRun")
    /\ LET cs == Finished
       IN configs' = [cs EXCEPT ![Len(cs)].runs = Append(@, NewRun)]
    /\ open' = FALSE /\ defaultRule' = TRUE
    /\ EndLine /\ UNCHANGED status

ReadIndex ==
    /\ Says("Index")
    /\ IF ~Is(Tokens, 2, "int") THEN GiveUp
       ELSE /\ configs' = WithRun(Finished, LAMBDA run :
                  [run EXCEPT !.rules = Append(@, [tile |-> ReadTile(Tokens), tests |-> <<>>])])
            /\ open' = TRUE /\ defaultRule' = TRUE
            /\ EndLine /\ UNCHANGED status

ReadPos ==
    /\ Says("Pos") /\ open
    /\ IF ~PosReadable(Tokens) THEN GiveUp
       ELSE /\ configs' = FoldLeft(LAMBDA cs, rule : WithRun(cs, LAMBDA run : AddTest(rule, run)),
                                   configs, PosRules(Tokens))
            /\ defaultRule' = (defaultRule /\ <<Tokens[2].int, Tokens[3].int>> # <<0, 0>>)
            /\ EndLine /\ UNCHANGED <<open, status>>

ReadRandom ==
    /\ Says("Random") /\ open
    /\ configs' = WithRun(configs, LAMBDA run : AddTest([coef |-> Coef(Tokens)], run))
    /\ EndLine /\ UNCHANGED <<open, defaultRule, status>>

ReadNoDefaultRule ==
    /\ Says("NoDefaultRule") /\ open
    /\ defaultRule' = FALSE
    /\ EndLine /\ UNCHANGED <<configs, open, status>>

ReadNoLayerCopy ==
    /\ Says("NoLayerCopy")
    /\ configs' = WithRun(configs, LAMBDA run : [run EXCEPT !.layerCopy = FALSE])
    /\ EndLine /\ UNCHANGED <<open, defaultRule, status>>

(* Another word, or one that needs an index rule before it. *)
ReadUnknown ==
    /\ status = "reading" /\ ~Empty /\ configs # <<>> /\ Is(Tokens, 1, "word")
    /\ ~IsWord(Tokens, 1, {"NewRun", "Index", "NoLayerCopy"}
                              \cup IF open THEN {"Pos", "Random", "NoDefaultRule"} ELSE {})
    /\ EndLine /\ UNCHANGED <<configs, open, defaultRule, status>>

(* Mutant of FinishReading: the last rule is not closed. *)
FinishReadingBare ==
    /\ status = "reading" /\ Empty
    /\ status' = "read"
    /\ UNCHANGED <<reader, configs, open, defaultRule, mapping>>

FinishReading ==
    /\ status = "reading" /\ Empty
    /\ configs' = Finished
    /\ open' = FALSE /\ defaultRule' = TRUE
    /\ status' = "read"
    /\ UNCHANGED <<reader, mapping>>

-----------------------------------------------------------------------------
(* Running a configuration over a layer *)

OutTile == [id |-> -1, flags |-> {}]
InBounds(l, x, y) == x \in 0 .. l.w - 1 /\ y \in 0 .. l.h - 1
TileOr(l, x, y) == IF InBounds(l, x, y) THEN l.tiles[y * l.w + x] ELSE OutTile
(* Past the end the array grows, where no read of a tile reaches. *)
SetTile(l, x, y, tile) ==
    LET i == y * l.w + x
    IN IF i \in DOMAIN l.tiles THEN [l EXCEPT !.tiles[i] = tile] ELSE l

TileMatches(tile, state) == tile.id = state.id /\ (state.free \/ tile.flags = state.flags)
PosRuleMatches(rule, l, x, y) ==
    LET tile == TileOr(l, x + rule.dx, y + rule.dy)
        some == \E i \in DOMAIN rule.states : TileMatches(tile, rule.states[i])
    IN some # rule.invert
TestMatches(test, l, r1, r2, x, y) ==
    IF "coef" \in DOMAIN test THEN Hash(r1, r2, x, y) * 100 < HashMax * test.coef
    ELSE PosRuleMatches(test, l, x, y)
RuleMatches(rule, l, r1, r2, x, y) ==
    \A i \in DOMAIN rule.tests : TestMatches(rule.tests[i], l, r1, r2, x, y)

(* Mutant of MapCell: the copy is not read. *)
MapCellInPlace(l, run, copy, r1, x, y) ==
    FoldLeft(LAMBDA acc, r2 :
                 IF RuleMatches(run.rules[r2], acc, r1, r2, x, y)
                 THEN SetTile(acc, x, y, run.rules[r2].tile) ELSE acc,
             l, [r2 \in DOMAIN run.rules |-> r2])

(* Every rule in turn on one cell; without a copy a rule reads what those *)
(* before it wrote.                                                        *)
MapCell(l, run, copy, r1, x, y) ==
    FoldLeft(LAMBDA acc, r2 :
                 IF RuleMatches(run.rules[r2], IF run.layerCopy THEN copy ELSE acc, r1, r2, x, y)
                 THEN SetTile(acc, x, y, run.rules[r2].tile) ELSE acc,
             l, [r2 \in DOMAIN run.rules |-> r2])

(* The columns are counted with the height. *)
MapRun(l, run, r1) ==
    FoldLeft(LAMBDA acc, i : MapCell(acc, run, l, r1, i % l.h, i \div l.h),
             l, [k \in 1 .. l.h * l.h |-> k - 1])

StartMapping(c) ==
    /\ status = "read" /\ c \in DOMAIN configs
    /\ status' = "mapping" /\ config' = configs[c]
    /\ UNCHANGED <<reader, configs, open, defaultRule, layer, applied>>

ApplyRun ==
    /\ status = "mapping" /\ applied < Len(config.runs)
    /\ layer' = MapRun(layer, config.runs[applied + 1], applied)
    /\ applied' = applied + 1
    /\ UNCHANGED <<reader, configs, open, defaultRule, status, config>>

-----------------------------------------------------------------------------
Init ==
    /\ file \in Files
    /\ line = Min({i \in DOMAIN file : file[i] # <<>>} \cup {Len(file) + 1})
    /\ token = 1
    /\ configs = <<>> /\ open = FALSE /\ defaultRule = TRUE
    /\ status = "reading"
    /\ layer \in Layers /\ config = [name |-> "none", runs |-> <<>>] /\ applied = 0

Parse ==
    \/ ReadHeader \/ ReadInvalid \/ ReadNewRun \/ ReadIndex \/ ReadPos
    \/ ReadRandom \/ ReadNoDefaultRule \/ ReadNoLayerCopy \/ ReadUnknown
    \/ FinishReading

Next == Parse \/ (\E c \in 1 .. Len(file) : StartMapping(c)) \/ ApplyRun

(* The parser is a loop of one thread: it goes on as long as it can. *)
Spec == Init /\ [][Next]_vars /\ WF_vars(Parse)

-----------------------------------------------------------------------------
(* Properties *)

(* The parser stays within the text, and keeps a run open only where there *)
(* is one.                                                                 *)
TypeOK ==
    /\ line \in 1 .. Len(file) + 1 /\ token \in Nat \ {0}
    /\ open => configs # <<>> /\ Last(Last(configs).runs).rules # <<>>
    /\ status \in {"reading", "read", "null", "mapping"}
    /\ \A c \in DOMAIN configs : configs[c].runs # <<>>
    /\ applied \in 0 .. Len(config.runs)
    /\ DOMAIN layer.tiles = 0 .. layer.w * layer.h - 1

(* The implicit rule of an index rule, that the cell is not empty, comes   *)
(* once after the rules its lines give, unless one of the lines from its    *)
(* Index to the next Index, NewRun or header says NoDefaultRule or tests    *)
(* the cell itself.                                                         *)
BlockOf(ls, i) ==
    {j \in i + 1 .. Len(ls) : \A k \in i + 1 .. j :
        ~Is(ls[k], 1, "header") /\ ~IsWord(ls[k], 1, {"Index", "NewRun"})}
Waives(tokens) ==
    \/ IsWord(tokens, 1, {"NoDefaultRule"})
    \/ IsWord(tokens, 1, {"Pos"}) /\ tokens[2].int = 0 /\ tokens[3].int = 0
DefaultRuleOnce ==
    /\ TypeOK
    /\ status \in {"read", "mapping"} /\ ~HasErrors(file) =>
        LET ls == Written(file)
            heads == SelectSeq([i \in DOMAIN ls |-> i], LAMBDA i : IsWord(ls[i], 1, {"Index"}))
            rules == FlattenSeq([c \in DOMAIN configs |->
                         FlattenSeq([r \in DOMAIN configs[c].runs |-> configs[c].runs[r].rules])])
            given(k) == {j \in BlockOf(ls, heads[k]) : IsWord(ls[j], 1, {"Pos", "Random"})}
        IN /\ Len(rules) = Len(heads)
           /\ \A k \in DOMAIN heads :
                IF \E j \in BlockOf(ls, heads[k]) : Waives(ls[j])
                THEN Len(rules[k].tests) = Cardinality(given(k))
                ELSE /\ Len(rules[k].tests) = Cardinality(given(k)) + 1
                     /\ Last(rules[k].tests) = DefaultPosRule

(* The lines of doc/automap.md's grammar: a command, and after it EndLine,  *)
(* which derives any text that is left.  What may follow what is taken more *)
(* freely than there, where a run has one index rule.                       *)
IdList(tokens, from) ==
    /\ Is(tokens, from, "int")
    /\ \A i \in from + 1 .. Len(tokens) :
         \/ IsWord(tokens, i, StateWords)
         \/ Is(tokens, i, "int") /\ IsWord(tokens, i - 1, {"OR"})
    /\ \A i \in from .. Len(tokens) : IsWord(tokens, i, {"OR"}) => Is(tokens, i + 1, "int")
Command(l) ==
    \/ Len(l) = 1 /\ (Is(l, 1, "header") \/ IsWord(l, 1, {"NewRun", "NoLayerCopy", "NoDefaultRule"}))
    \/ IsWord(l, 1, {"Index"}) /\ Is(l, 2, "int") /\ \A j \in 3 .. Len(l) : IsWord(l, j, FlagWords)
    \/ IsWord(l, 1, {"Random"}) /\ Len(l) = 2 /\ (Is(l, 2, "int") \/ Is(l, 2, "float"))
    \/ IsWord(l, 1, {"Pos"}) /\ Is(l, 2, "int") /\ Is(l, 3, "int")
         /\ \/ IsWord(l, 4, {"EMPTY", "FULL"}) /\ Len(l) = 4
            \/ IsWord(l, 4, {"INDEX", "NOTINDEX"}) /\ IdList(l, 5)
CommandLine(l) == \E n \in DOMAIN l : Command(SubSeq(l, 1, n))
InGrammar(text) ==
    LET ls == Written(text)
        ruled(i) == \E j \in 1 .. i - 1 : IsWord(ls[j], 1, {"Index"})
                       /\ \A k \in j + 1 .. i - 1 : ~Is(ls[k], 1, "header")
                                                      /\ ~IsWord(ls[k], 1, {"NewRun"})
    IN \A i \in DOMAIN ls :
        /\ CommandLine(ls[i])
        /\ i = 1 => Is(ls[i], 1, "header")
        /\ IsWord(ls[i], 1, {"Pos", "Random", "NoDefaultRule"}) => ruled(i)

(* Whatever the grammar derives passes the linter without an error.  It is  *)
(* not so: the linter takes text left after the flags of an Index or the    *)
(* tiles of a Pos for an error, and after any other command for a warning.  *)
GrammarAccepted == InGrammar(file) => ~HasErrors(file)

(* A text of the grammar in which nothing is left after the flags of an     *)
(* Index and the tiles of a Pos, whatever is left after the other commands, *)
(* passes the linter without an error, and the parser does not give it up.  *)
ListsEnd(l) == IsWord(l, 1, {"Index"}) \/ IsWord(l, 4, {"INDEX", "NOTINDEX"}) => Command(l)
EndedListsAccepted ==
    InGrammar(file) /\ (\A i \in DOMAIN file : ListsEnd(file[i]))
        => ~HasErrors(file) /\ status # "null"

(* A run that copies the layer gives every cell the tile of its last rule  *)
(* whose tests hold in the layer before the run, and leaves it alone when  *)
(* there is none: the order of the cells does not show.  On layers as wide *)
(* as they are high.                                                       *)
RunsReadTheirCopy ==
    [][applied' = applied + 1 /\ layer.w = layer.h =>
         LET run == config.runs[applied']
         IN run.layerCopy =>
              \A x, y \in 0 .. layer.w - 1 :
                LET hits == {r \in DOMAIN run.rules :
                                RuleMatches(run.rules[r], layer, applied, r, x, y)}
                IN TileOr(layer', x, y) = IF hits = {} THEN TileOr(layer, x, y)
                                          ELSE run.rules[Max(hits)].tile]_vars

(* A text the linter finds no error in is one the parser reads to its end,  *)
(* and has rules to return then: the two readers of the same language,      *)
(* written apart, agree that far.                                           *)
LintedFilesParse ==
    (status = "reading" /\ ~HasErrors(file)) ~> (status \in {"read", "mapping"})

(* "invalid line, skip": the parser comes to an end on every text. *)
EveryFileEnds == <>(status # "reading")

==============================================================================
