--------------------------- MODULE MCPracticeLoop ---------------------------
EXTENDS PracticeLoop

CONSTANTS known, other, MaxLines, MaxPhotoLines

\* Values: two right ones, the given expression, a wrong one.
MCValues == {"right", "right2", "given", "wrong"}

MCTemplateFor == [p \in Topics |-> IF p = known THEN "chain" ELSE NoTemplate]
MCTopics == {known, other}
MCTemplates == {"chain", "power"}
MCNamed == {"power", NoTemplate}

Line(values) == [values |-> values, latex |-> FALSE, marker |-> FALSE]

\* A line of prose, a conclusion in words, equations, a list of roots, a
\* conclusion that does not parse.
Lines ==
  {Line(<<>>), [Line(<<>>) EXCEPT !.marker = TRUE],
   Line(<<"right">>), Line(<<"given">>), Line(<<"wrong">>),
   Line(<<"right", "right2">>),
   [Line(<<"right", Unreadable>>) EXCEPT !.marker = TRUE]}

\* The same line read as plain text and as LaTeX.
PhotoLines == {Line(<<"right">>), [Line(<<"right">>) EXCEPT !.latex = TRUE]}

UpTo(n, S) == UNION {[1..k -> S] : k \in 0..n}

\* Every short submission, every root tried, and the given written out above
\* two lines.
MCTypedWork ==
  UpTo(MaxLines, Lines)
    \cup {<<Line(<<"right2", "wrong", "right">>)>>, <<Line(<<"wrong", "right2">>)>>}
    \cup {<<Line(<<"given">>)>> \o w :
            w \in [1..2 -> {Line(<<"right">>), Line(<<"wrong">>)}]}

Shot(chars, balanced, work, parses) ==
  [accepted |-> TRUE, answered |-> TRUE, chars |-> chars,
   balanced |-> balanced, lines |-> work, other |-> parses]

\* An image rejected, or accepted and not answered.
Lost == {[Shot(0, FALSE, <<>>, FALSE) EXCEPT !.accepted = a, !.answered = FALSE] :
           a \in BOOLEAN}

\* A blank page or an illegible line, short or long, and pages that read.
MCPhotos ==
  Lost \cup
  {Shot(0, b, <<>>, FALSE) : b \in BOOLEAN} \cup
  {Shot(c, b, <<Line(<<Unreadable>>)>>, p) :
     c \in {3, 20}, b \in BOOLEAN, p \in BOOLEAN} \cup
  {Shot(20, b, w, FALSE) : b \in BOOLEAN, w \in UpTo(MaxPhotoLines, PhotoLines) \ {<<>>}}

\* A derivative, a simplification, a linear and a quadratic equation.
MCTasks ==
  {[expected |-> {"right"}, assignment |-> FALSE, given |-> "given",
    methods |-> 2],
   [expected |-> {"right"}, assignment |-> FALSE, given |-> "right",
    methods |-> 1],
   [expected |-> {"right"}, assignment |-> TRUE, given |-> Unreadable,
    methods |-> 1],
   [expected |-> {"right", "right2"}, assignment |-> FALSE,
    given |-> Unreadable, methods |-> 1]}

\* One error has a name; the quadratic's wrong roots share one with the right
\* ones, and there is no detector for a simplification or a linear equation.
MCCatalog == {"sign_error"}
MCNamedError == [task \in MCTasks |-> "sign_error"]
MCWrongAnswers ==
  [task \in MCTasks |->
     IF "right2" \in task.expected THEN {<<"right2", "wrong">>}
     ELSE IF task.given = "given" THEN {<<"wrong">>} ELSE {}]
MCConfidences == {-5, 0, 59, 60, 150, NotANumber}
=============================================================================
