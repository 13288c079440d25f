CONSTANTS
    agent = agent
    other = other
    command = command
    turn = turn
    terminal = terminal
    run = run
    config = config
    model = model
    apiKey = apiKey
    task1 = task1
    task2 = task2
    Managers = {agent, other, command}
    Workers = {turn, terminal, run, config}
    Settings = {model}
    Secrets = {apiKey}
    Tasks = {task1, task2}
    Home <- MCHome
    Owns <- MCOwns
    Limit = 1
    MaxChanges = 2
    MaxFaults = 2
SPECIFICATION Spec
INVARIANTS TypeOK NoChangeLost
PROPERTIES OthersKept
CHECK_DEADLOCK FALSE
