----------------------------- MODULE MCAlgorithms -----------------------------
(* Every short input of the pure algorithms.                                 *)
EXTENDS Algorithms, TLC

Line(kind, n) == [kind |-> kind, n |-> n]
Lines == {Line("heading", 2), Line("row", 2), Line("row", 4), Line("sep", 3), Line("blank", 0),
          Line("text", 1), Line("text", 4), Line("html", 4), Line("fence", 3)}

Tags == {Tag("table"), Tag("/table"), Tag("tr"), Cell(1, 1, FALSE, FALSE)}
        \cup {Cell(r, c, th, TRUE) : r \in 1..2, c \in 1..2, th \in BOOLEAN}

Figures(aside) ==
    {Figure(n, u, FALSE, aside) : n \in {-2, 2, 4}, u \in {Bare, 2}} \cup {Figure(2, Percent, FALSE, aside)}
March(aside) == Word(<<[letter |-> "m"], [letter |-> "a"]>>, aside)
Texts == {Mark, Figure(4, Bare, TRUE, FALSE), Figure(2, Bare, FALSE, TRUE)} \cup Figures(FALSE)
         \cup {March(FALSE), March(TRUE), Word(<<[letter |-> "a"]>>, FALSE)}
MCGolds == {<<Figure(n, u, FALSE, FALSE)>> : n \in {-2, 2}, u \in {Bare, 2, Percent}}
         \cup {<<Figure(2, Bare, FALSE, FALSE), v>> : v \in Figures(FALSE) \cup {Figure(4, Bare, TRUE, FALSE)}}
         \cup {<<March(FALSE)>>, <<March(FALSE), Figure(4, Bare, TRUE, FALSE)>>, <<Word(<<[letter |-> "a"]>>, FALSE)>>,
               <<March(FALSE), March(TRUE), Word(<<[letter |-> "a"]>>, FALSE)>>, <<Figure(2, Bare, FALSE, FALSE), March(TRUE)>>,
               <<March(FALSE), Figure(4, Bare, TRUE, TRUE)>>, <<Figure(2, Bare, FALSE, FALSE), Mark, Word(<<[letter |-> "a"]>>, FALSE)>>,
               <<March(FALSE), Figure(2, Bare, FALSE, FALSE), Figure(-2, Bare, FALSE, FALSE)>>}

Token(mask, piece) == [mask |-> mask, piece |-> piece]
Tokens == {Token(m, p) : m \in 0..1, p \in {Open, Close, Gold}}
          \cup {Token(1, "other"), Token(1, Pad), Token(0, Special), Token(1, Half), Token(0, Half)}

Passage(title, capital, text) == [title |-> title, capital |-> capital, text |-> text]
Asks(tool, text, top_k, client) == [at |-> "asked", tool |-> tool, text |-> text, top_k |-> top_k, client |-> client]
Comes(call, answer) == [at |-> "answered", call |-> call, answer |-> answer]
Articles == {Down, Answer(<<Passage("a", FALSE, 1)>>),
             Answer(<<Passage("b", FALSE, 2), Passage("a", TRUE, 3), Passage("a", FALSE, 4)>>)}
Events == {Asks("ANN", "a", k, TRUE) : k \in {0, 2, 3}} \cup {Asks("HYBRID", "a", 2, TRUE), Asks("ANN", "b", NotANumber, TRUE)}
          \cup {Asks("read", "a", TopK, client) : client \in BOOLEAN} \cup {Asks("ANN", "a", 2, FALSE), Asks("ANN", Short, 2, TRUE)}
          \cup {Comes(call, answer) : call \in 1..2, answer \in Articles} \cup {Comes(1, Malformed), Comes(1, Answer(<<>>))}

Output(error, tokens) == [error |-> error, tokens |-> tokens, titles |-> IF tokens = <<>> THEN {} ELSE {Head(tokens)}]
Trace(file, uid, question, outputs, level) ==
    [file |-> file, uid |-> uid, question |-> question, outputs |-> outputs, level |-> level,
     gt |-> {<<"new", "york">>, <<>>}, supporting |-> {"new"}]
Found == <<Output(FALSE, <<"in", "new", "york">>)>>
Apart == <<Output(FALSE, <<"new">>), Output(FALSE, <<"york">>)>>
FailedThen == <<Output(FALSE, <<"new">>), Output(TRUE, <<"new", "york">>)>>
Traces == {Trace(file, uid, uid, s[1], s[2]) : file \in {"ref", "other"}, uid \in 1..2,
              s \in {<<Found, "em">>, <<Found, "none">>, <<Apart, "none">>, <<FailedThen, "f1">>, <<FailedThen, "none">>, <<<<>>, "em">>}}
          \cup {Trace("other", 1, 3, Found, "cover")}

Set(name, value) == [name |-> name, value |-> value]
Settings ==
    {Set(name, v) : name \in {"TP", "PP", "CP", "EP", "GEN_TP"}, v \in {2, 3}}
    \cup {Set("model", m) : m \in {"moe", "unknown"}} \cup {Set("NNODES", 2), Set("ROLLOUT_NNODES", 1)}
    \cup {Set("N_GPUS_ROLLOUT", 1), Set("N_GPUS_ROLLOUT", 4), Set("SEPARATE", 1), Set("FSDP", 1), Set("OFFLOAD", 0), Set("train_files", List)}
    \cup {Set("mini", v) : v \in {2, 3}} \cup {Set("total", v) : v \in {12, 16, 19}} \cup {Set("TRIGGER_SYNC_STEP", 1)}
    \cup {Set("batch", 6), Set("n", 2), Set("SAVE_FREQ", 0), Set("ALLOW_UNCERTIFIED", 1), Set("TEST_FREQ", 0)}
    \cup {Set("MULTI_TURN", 1), Set("EPISODE_TOKEN_BUDGET", 3), Set("EPISODE_TOKEN_BUDGET", 5), Set("MAX_MODEL_LEN", 5)}
MCDefaults ==
    [NNODES |-> 1, NGPUS_PER_NODE |-> 4, ROLLOUT_NNODES |-> 0, N_GPUS_ROLLOUT |-> 2, SEPARATE |-> 0,
     TP |-> 1, PP |-> 1, CP |-> 1, EP |-> 1, ETP |-> 1, GEN_TP |-> 1, FSDP |-> 0, OFFLOAD |-> OffloadAuto]
    @@ [model |-> "dense", prompt |-> 1, response |-> 3, train_files |-> 0, MAX_TURNS |-> 2, MULTI_TURN |-> 0, EPISODE_TOKEN_BUDGET |-> Unset,
        MAX_MODEL_LEN |-> Unset, total |-> 8, epochs |-> 2, mini |-> 4, batch |-> 4, n |-> 4]
    @@ [TRIGGER_SYNC_STEP |-> 2, REQUIRE_BATCHES |-> 1, SAVE_FREQ |-> 1, TEST_FREQ |-> -1, ALLOW_UNCERTIFIED |-> 0]
MCLimits ==
    [dense |-> [all_heads |-> {2, 4}, heads |-> 4, layers |-> 6, experts |-> 0],
     moe |-> [all_heads |-> {4, 6}, heads |-> 6, layers |-> 6, experts |-> 6]]

Parts == {[op |-> op, n |-> 0] : op \in {"+", "*", "/", "**", "round", "neg", "factorial"}}
         \cup {[op |-> "number", n |-> n] : n \in {0, 3, 5}}

Questions == {Question(b, [k \in Checkpoints |-> IF k = 1 THEN c ELSE d], "none") : b \in 0..1, c \in 0..1, d \in 0..1}
             \cup {Question(0, [k \in Checkpoints |-> 1], flaw) : flaw \in Flaws \ {"none"}}

Row(difficulty, hops, rewards) == [difficulty |-> difficulty, hops |-> hops, rewards |-> rewards]
Pilot == {Row("hard", h, r) : h \in {2, 3}, r \in {<<>>, <<0, 1>>, <<1, 1>>}}
         \cup {Row("easy", 2, r) : r \in {<<>>, <<0, 1>>}}
         \cup {Row("hard", 2, <<1>>), Row("easy", 3, <<0, Unscored>>), Row("odd", 2, <<>>)}

MCAlphabetOf(s) ==
    CASE s = "chunker" -> Lines [] s = "html" -> Tags [] s = "answer" -> Texts [] s = "search" -> Tokens
      [] s = "launch" -> Settings [] s = "calculator" -> Parts [] s = "paired" -> Questions [] s = "splits" -> Pilot
      [] s = "tool" -> Events [] s = "traces" -> Traces
MCStartsOf(s) ==
    CASE s = "html" -> {<<Tag("table"), Tag("tr")>>}
      [] s = "tool" -> {<<x, Asks(y[1], "a", y[2], y[3])>> : x \in {e \in Events : e.at = "asked"},
                            y \in {<<"ANN", 3, TRUE>>, <<"ANN", 2, FALSE>>, <<"read", TopK, TRUE>>}}
      [] OTHER -> {<<>>}

MCLongest == "chunker" :> 5 @@ "html" :> 6 @@ "answer" :> 4 @@ "search" :> 5 @@ "launch" :> 3
             @@ "calculator" :> 5 @@ "paired" :> 3 @@ "splits" :> 4 @@ "tool" :> 5 @@ "traces" :> 4
MCAlphabet == [s \in DOMAIN MCLongest |-> MCAlphabetOf(s)]
MCStarts == [s \in DOMAIN MCLongest |-> MCStartsOf(s)]
=============================================================================
