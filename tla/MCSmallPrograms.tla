-------------------------- MODULE MCSmallPrograms ---------------------------
EXTENDS SmallPrograms

\* Three requests; the buffer, with and without spaces in what is on the stack.
MCRequest == <<[priority |-> 1, words |-> <<<<1, 2>>, <<3>>>>, newline |-> TRUE],
               [priority |-> 2, words |-> <<<<4>>, <<5, 6>>>>, newline |-> FALSE],
               [priority |-> 2, words |-> <<<<7>>>>, newline |-> TRUE]>>

Blank == [k \in 1 .. MSG_SIZE |-> -3]
MCStack == {Blank, [Blank EXCEPT ![5] = 8, ![6] = -1, ![7] = 9],
            [Blank EXCEPT ![3] = 8, ![4] = 8, ![5] = 8]}

\* Arguments of three characters, one, none and four; ASCII letters.
MCArgv == <<<<46, 47, 97>>, <<98>>, <<>>, <<98, 97, 65, 66>>>>
MCUpper(c) == IF c \in 97 .. 122 THEN c - 32 ELSE c

\* A file with numbers, one that is missing and an empty one.
MCFiles == <<<<4, 2>>, NoFile, <<>>>>

\* Fields without a cell, with one, and with borders and corners of any kind.
MCFieldSizes == {<<0, 2>>, <<1, 1>>, <<3, 2>>, <<2, 3>>}
MCSteps == {-1, 2}

\* The benchmark with one thread, then with two.
MCConfigs == <<1, 2>>
=============================================================================
