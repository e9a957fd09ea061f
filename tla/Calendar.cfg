\* The agenda over openings, completions, profile edits and releases.
SPECIFICATION Spec
CONSTANTS
    None = None
    ivaTrimestral = ivaTrimestral
    ssTrimestral = ssTrimestral
    porConta = porConta
    validacao = validacao
    modelo3 = modelo3
    contribuicoes = contribuicoes
    faturas = faturas
    guardar = guardar
    alteracoes = alteracoes
    Rules <- MCRules
    RuleOf <- MCRuleOf
    Packs <- MCPacks
    Profiles <- MCProfiles
    StartDays <- MCStartDays
    MaxDays = 3
    MaxOpen = 2
    MaxDone = 1
INVARIANTS TypeOK ArithmeticAgrees UniqueIds DateAsSaid
PROPERTIES NeverGoesBack WarnedBeforeLate
