\* One connection, all commands.
SPECIFICATION Spec
CONSTANTS
  Conns = {c1}
  Inputs = {"/start", "/stop", "stop", "help", "learning", "changelevel",
            "changeprompt", "changemodel", "shiritori", "chatting",
            "ttt", "tts", "stt", "sts",
            "tasks_add", "words_add", "task_del", "word_del", "text"}
  MaxAsked = 2
  MaxFaults = 2
INVARIANTS
  TypeOK
  LearningHasTask
