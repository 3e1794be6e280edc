------------------------------ MODULE MCProgram ------------------------------
(* Command lines and files that differ in what the program makes of them. *)
EXTENDS Program

MCNumberOf == "8" :> 8 @@ "0" :> 0 @@ "-1" :> -1
MCListOf == "A,B" :> <<"A", "B">>
MCUpperOf == "app" :> "APP" @@ "hr" :> "HR"
MCDirs == {"dbscanner-out", "other"}

MCFiles ==
    "all" :> [NoFile EXCEPT
                !.values = "connectString" :> "db" @@ "username" :> "hr" @@ "threads" :> 0
                           @@ "outputDir" :> "other",
                !.exclude = <<"C">>, !.infer = FALSE]
    @@ "torn" :> [NoFile EXCEPT !.json = FALSE]
    @@ "mistyped" :> [NoFile EXCEPT !.typed = FALSE]

Plain == <<"-c", "db", "-u", "app">>

\* The last two have a value that looks like a flag: the flag is lost, and what
\* follows is out of step.
MCCommandLines ==
    {Plain, Plain \o <<"--resume">>, Plain \o <<"-o", "other", "--exclude", "A,B">>,
     <<"--config", "all", "-u", "app", "-j", "8", "-u", "hr", "--resume",
       "--exclude", "A,B", "--exclude", "D">>,
     <<"--config", "all">>, <<"--config", "all", "--threads", "-1">>,
     <<"--config", "none">>, <<"--config", "torn">>, <<"--config", "mistyped">>,
     Plain \o <<"--version", "--nope">>, Plain \o <<"--version">>,
     Plain \o <<"-j", "x">>, Plain \o <<"--sample-size">>,
     <<"-c", "db", "--schema", "--resume", "-u", "app">>,
     <<"-c", "db", "--schema", "-u", "app">>}

==============================================================================
